---- MODULE Spec2Model ----
(***************************************************************************)
(* Sales audio transcription: the Apps Script job queue (main.gs,          *)
(* sheetsService.gs), the transcription server (server.js and its          *)
(* simplified successor) and the segment-by-segment transcription loop     *)
(* with its Whisper subprocess (transcriptionService.js and successors).   *)
(*                                                                         *)
(* Eighteen specifications share the module:                               *)
(*   SpecQueue    - the master sheet, the script lock, the scheduled and   *)
(*                  manual dispatch paths, the server's status writes      *)
(*   SpecLock     - the same without the operator's manual test            *)
(*   SpecSegments - one job's loop over the segments of an asset           *)
(*   SpecWhisper  - the Whisper subprocesses of concurrently served        *)
(*                  requests                                               *)
(*   SpecRetry    - the retry count of a row: dispatch, completion         *)
(*                  webhook, AI analysis, cleanup, reprocessing            *)
(*   SpecMonitor  - the statistics of QualityMonitor                       *)
(*   SpecDecision - shouldFallbackToOpenAI on given statistics             *)
(*   SpecJob      - processTranscriptionJob with the shared monitor        *)
(*   SpecSplit      - splitting an asset into chunks, by pauses or time    *)
(*   SpecRepetition - checkRepetition on short texts                       *)
(*   SpecDispatch   - the transcription queue under its time triggers,     *)
(*                    with fairness                                        *)
(*   SpecAnalysis   - overlapping executions of processAllPendingAnalysis  *)
(*   SpecCounters   - the counters of QualityMonitor over a long history   *)
(*   SpecRetrying   - processTranscriptionJob with its own retry loop      *)
(*   SpecRelease    - the script lock on the exception paths of a run      *)
(*   SpecWebhook    - doPost with any payload                              *)
(*   SpecCleanup    - cleanupStuckProcessing against the clock             *)
(*   SpecSync       - syncFormToDatabase, overlapping executions           *)
(***************************************************************************)
EXTENDS Integers, Sequences, FiniteSets, TLC

VARIABLES
  \* ---- master sheet (one row per case, row order = case number) ----
  status,       \* column F, Transcription_Status
  dataStatus,   \* column O, Data_Status (kind of the text stored there)
  transcript,   \* column G, Transcript_Text (kind of the text stored there)
  retry,        \* column S, Retry_Count
  linkOk,       \* column E, Audio_File_Link_GDrive: a file id can be read from it
  \* ---- Apps Script executions ----
  pc,           \* position of each execution
  task,         \* the task an execution is dispatching (0: none)
  holds,        \* the execution holds the script lock
  resp,         \* HTTP outcome of callTranscriptionAPI
  \* ---- transcription server ----
  deploy,       \* which server is deployed: "queued" or "direct"
  srv,          \* state of the server's job for each case
  \* ---- one job's loop over the segments of an asset ----
  orch,         \* the function running the loop
  nseg,         \* number of segments the asset was split into
  idx,          \* segment of the current iteration (1-based)
  spc,          \* position of the loop
  results,      \* entries of the transcript assembled so far
  files,        \* temporary files that exist on disk
  running,      \* segments whose engine call is outstanding
  delayed,      \* segments after which the inter-segment delay has elapsed
  failedSeg,    \* segments whose transcription failed
  \* ---- Whisper subprocesses of the requests being served ----
  alive,        \* the request's python3 subprocess is alive
  scriptExited, \* flag of transcribeWithOpenAIWhisper
  stdoutClosed, \* flag of transcribeWithOpenAIWhisper
  stderrClosed, \* flag of transcribeWithOpenAIWhisper
  exitCode,     \* pythonProcess.exitCode as stored by the 'exit' handler
  timedOut,     \* the spawn timeout has expired for the subprocess
  promise,      \* state of the promise the call returned
  \* ---- AI analysis of completed rows ----
  analysis,     \* column I, AI_Analysis_Output is filled
  inAnalysis,   \* rows an execution has picked and is analysing
  \* ---- QualityMonitor (one instance per server process) ----
  monitorStats, \* this.stats: consecutiveFailures, qualityHistory, averageQuality
  evalInput,    \* the quality object of the last shouldFallbackToOpenAI call
  decision,     \* what that call returned
  \* ---- processTranscriptionJob of the queued server, per job ----
  jpc,          \* position of the job
  attempts,     \* attempts the queue has made for the job
  primaryResult,\* result of transcribeAudio (transcript and quality)
  openaiResult, \* result of transcribeWithOpenAI
  final,        \* transcript and quality the job goes on with
  processingMethod,
  assessed,     \* calls of assessTranscriptionQuality: on a segment, on the whole
  qualitySource,\* where the quality the segment loop's function returns is from
  emptySeg,     \* segments for which the engine returned an empty text
  \* ---- splitting an asset into chunks ----
  splitter,     \* the function that splits: smartSplitAudioForiPhone or transcribeAudio
  duration,     \* audioInfo.duration, in the model's time unit
  silences,     \* what detectSilences gives: intervals in ascending order
  sphase,       \* position of the split
  chunks,       \* the chunk list being built: spans [start, end)
  cursor,       \* loop index (silence or chunk number)
  currentStart, \* splitByPauses: start of the chunk being built
  extractFailed,\* an extractChunk call of this split has failed
  \* ---- checkRepetition ----
  inputText,    \* the text given to checkRepetition: a sequence of characters
  repetition,   \* what the call returned: repeatedWords.length / words.length
  \* ---- executions of processAllPendingAnalysis ----
  apc,          \* position of each execution
  pendingRows,  \* the rows getPendingAnalysisRows gave it, not yet handled
  analysisDataForBatchUpdate, \* rows whose result it holds in memory
  notifiedBy,   \* per case: the executions that analysed it and sent the notification
  \* ---- QualityMonitor: the counters of this.stats ----
  statCounts,   \* totalTranscriptions, successfulTranscriptions, failedTranscriptions
  \* ---- the retrying processTranscriptionJob, per job ----
  rpc,          \* position of the job's present call
  calls,        \* calls of the function the queue has made for the job
  trail,        \* the attempts of the present call, each running, failed or ok
  lastError,    \* the attempt whose error lastError holds (0: null)
  failWrites,   \* updateGoogleSheet calls with the failure status in this call
  thrownError,  \* the attempt whose error the call threw (0: none)
  \* ---- doPost ----
  posted,       \* the payload of the last webhook request
  \* ---- cleanupStuckProcessing and the clock ----
  clock,        \* the time, in half hours
  submissionTime, \* column B, Submission_Timestamp of each row
  beganAt,      \* when the row's present processing began (-1: not in progress)
  \* ---- syncFormToDatabase ----
  formData,     \* the form responses: Case ID and Sync_Status
  mainData,     \* the master sheet: per row Case ID, status, retry count
  syncPc,       \* position of each execution of syncFormToDatabase
  newEntries    \* the entries an execution has collected

sheetVars == <<status, dataStatus, transcript, retry, linkOk>>
execVars == <<pc, task, holds, resp>>
serverVars == <<deploy, srv>>
queueVars == <<sheetVars, execVars, serverVars>>

segVars == <<orch, nseg, idx, spc, results, files, running, delayed, failedSeg,
             assessed, qualitySource, emptySeg>>
whisperVars == <<alive, scriptExited, stdoutClosed, stderrClosed, exitCode,
                 timedOut, promise>>

analysisVars == <<analysis, inAnalysis>>
monitorVars == <<monitorStats, evalInput, decision>>
jobVars == <<jpc, attempts, primaryResult, openaiResult, final, processingMethod>>
splitVars == <<splitter, duration, silences, sphase, chunks, cursor,
               currentStart, extractFailed>>
textVars == <<inputText, repetition>>
runVars == <<apc, pendingRows, analysisDataForBatchUpdate, notifiedBy>>
\* ---- state of the specifications added last ----
countVars == <<statCounts>>
retryVars == <<rpc, calls, trail, lastError, failWrites, thrownError>>
webhookVars == <<posted>>
cleanupVars == <<clock, submissionTime, beganAt>>
syncVars == <<formData, mainData, syncPc, newEntries>>
extVars == <<countVars, retryVars, webhookVars, cleanupVars, syncVars>>
restVars == <<splitVars, textVars, runVars, extVars>>
moreVars == <<analysisVars, monitorVars, jobVars, restVars>>

vars == <<queueVars, segVars, whisperVars, moreVars>>

--------------------------------------------------------------------------
\* Bounds of the model
NumCases == 2
NumRuns == 2
RetryCap == 1
MaxSegments == 3
NumRequests == 2

Cases == 1..NumCases
\* Executions 1..NumRuns are triggered runs of smartAudioQueueProcessor;
\* execution 0 is an operator running testSingleTranscriptionRequest.
Runs == 1..NumRuns
Manual == 0
Procs == {Manual} \cup Runs

Pending == "Pending"
InProgress == "In Progress"
Completed == "Completed"
Failed == "Failed"
\* The literal written by the simplified server on failure (Chinese for
\* "transcription failed"); spelled in ASCII here.
ZhFailed == "ZhTranscriptionFailed"
Empty == ""

Min(S) == CHOOSE x \in S : \A y \in S : x <= y

--------------------------------------------------------------------------
\* Pure helpers of main.gs

IsPendingStatus(s) == s = Pending \/ s = Empty

\* analyzeQueueStatus: only rows with a Case ID and an audio link are counted
\* (every row syncFormToDatabase adds has both)
CountedRows(values) == DOMAIN values
analyzeQueueStatus(values) ==
  [pending    |-> Cardinality({c \in CountedRows(values) : IsPendingStatus(values[c])}),
   inProgress |-> Cardinality({c \in CountedRows(values) : values[c] = InProgress}),
   completed  |-> Cardinality({c \in CountedRows(values) : values[c] = Completed}),
   failed     |-> Cardinality({c \in CountedRows(values) : values[c] = Failed})]

\* findNextPendingTask: the first row with a Case ID whose status is Pending
\* or empty (the audio link is not looked at); 0 stands for null
findNextPendingTask_Last(values) ==
  LET cand == {c \in Cases : IsPendingStatus(values[c])}
  IN IF cand = {} THEN 0 ELSE CHOOSE x \in cand : \A y \in cand : x >= y
findNextPendingTask(values) ==
  LET cand == {c \in Cases : IsPendingStatus(values[c])}
  IN IF cand = {} THEN 0 ELSE Min(cand)

\* the row testSingleTranscriptionRequest picks: first row whose status is
\* exactly 'Pending' with a Case ID and an audio link
FindTestTask(values) ==
  LET cand == {c \in Cases : values[c] = Pending}
  IN IF cand = {} THEN 0 ELSE Min(cand)

--------------------------------------------------------------------------
\* Sheet writes

\* markTranscriptionStatus(caseId, status): columns F and O of the row
MarkTranscriptionStatusEffect(c, s) ==
  /\ status' = [status EXCEPT ![c] = s]
  /\ dataStatus' = [dataStatus EXCEPT ![c] = "Stamp"]

\* markAsError(rowIndex, ...): column O gets "Error: <message>" and
\* incrementRetryCount adds one to column S; column F is not written
MarkAsErrorEffect(c) ==
  /\ dataStatus' = [dataStatus EXCEPT ![c] = "Error"]
  /\ retry' = [retry EXCEPT ![c] = @ + 1]

\* the status the deployed server writes when a job fails
FailStatus == IF deploy = "queued" THEN Failed ELSE ZhFailed

\* updateGoogleSheet(caseId, text, status): columns F and G only
UpdateGoogleSheetEffect(c, s, text) ==
  /\ status' = [status EXCEPT ![c] = s]
  /\ transcript' = [transcript EXCEPT ![c] = text]

--------------------------------------------------------------------------
\* smartAudioQueueProcessor, one action per step of a run

\* tryLock(10000) succeeds when no other execution holds the script lock
LockFree_Always == TRUE
LockFree == \A q \in Procs : ~holds[q]

\* a trigger fires; "skipped" is the position of a run that has returned
\* because the lock was busy
RunStart(p) ==
  /\ p \in Runs
  /\ pc[p] \in {"idle", "skipped"}
  /\ pc' = [pc EXCEPT ![p] = "lock"]
  /\ UNCHANGED <<sheetVars, task, holds, resp, serverVars, segVars, whisperVars, moreVars>>

\* (the model follows the sheet until a row has RetryCap failed dispatches)
TryLockAcquire(p) ==
  /\ p \in Runs
  /\ pc[p] = "lock"
  /\ LockFree
  /\ \A c \in Cases : retry[c] < RetryCap
  /\ holds' = [holds EXCEPT ![p] = TRUE]
  /\ pc' = [pc EXCEPT ![p] = "scan"]
  /\ UNCHANGED <<sheetVars, task, resp, serverVars, segVars, whisperVars, moreVars>>

\* the bounded wait ran out while another execution held the lock: return
TryLockBusy(p) ==
  /\ p \in Runs
  /\ pc[p] = "lock"
  /\ ~LockFree
  /\ pc' = [pc EXCEPT ![p] = "skipped"]
  /\ UNCHANGED <<sheetVars, task, holds, resp, serverVars, segVars, whisperVars, moreVars>>

\* read the sheet, analyzeQueueStatus, findNextPendingTask; on the early
\* returns the lock is released in the same step
ScanQueue(p) ==
  /\ p \in Runs
  /\ pc[p] = "scan"
  /\ LET stats == analyzeQueueStatus(status)
         next == findNextPendingTask(status)
     IN IF stats.inProgress = 0 /\ stats.pending > 0 /\ next # 0
        THEN /\ task' = [task EXCEPT ![p] = next]
             /\ pc' = [pc EXCEPT ![p] = "mark"]
             /\ UNCHANGED holds
        ELSE /\ holds' = [holds EXCEPT ![p] = FALSE]
             /\ pc' = [pc EXCEPT ![p] = "idle"]
             /\ UNCHANGED task
  /\ UNCHANGED <<sheetVars, resp, serverVars, segVars, whisperVars, moreVars>>

\* testSingleTranscriptionRequest: no lock, no look at rows in progress
ManualScan(p) ==
  /\ p = Manual
  /\ pc[p] = "idle"
  /\ FindTestTask(status) # 0
  /\ task' = [task EXCEPT ![p] = FindTestTask(status)]
  /\ pc' = [pc EXCEPT ![p] = "mark"]
  /\ UNCHANGED <<sheetVars, holds, resp, serverVars, segVars, whisperVars, moreVars>>

--------------------------------------------------------------------------
\* processNextTask(task)

\* markTranscriptionStatus(task.caseId, 'In Progress'); when a sheet call
\* throws (writeOk false) the function logs the error and returns normally,
\* and processNextTask goes on to the request
MarkInProgress(p) ==
  /\ pc[p] = "mark"
  /\ \E writeOk \in BOOLEAN :
       IF writeOk
       THEN MarkTranscriptionStatusEffect(task[p], InProgress)
       ELSE UNCHANGED <<status, dataStatus>>
  /\ pc' = [pc EXCEPT ![p] = "call"]
  /\ UNCHANGED <<transcript, retry, linkOk, task, holds, resp, serverVars, segVars, whisperVars, moreVars>>

\* callTranscriptionAPI: no file id in the link -> failure without a request;
\* otherwise the POST /transcribe request goes out.  The queued server
\* answers at once (202 job accepted, 503 queue not ready), the direct
\* server answers when the transcription has ended.
CallTranscriptionAPI(p) ==
  /\ pc[p] = "call"
  /\ LET c == task[p] IN
     IF ~linkOk[c]
     THEN /\ resp' = [resp EXCEPT ![p] = "nofileid"]
          /\ pc' = [pc EXCEPT ![p] = "result"]
          /\ UNCHANGED srv
     ELSE IF deploy = "queued"
     THEN \E code \in {"202", "503"} :
            /\ resp' = [resp EXCEPT ![p] = code]
            /\ pc' = [pc EXCEPT ![p] = "result"]
            /\ srv' = IF code = "202" /\ srv[c] = "idle"
                      THEN [srv EXCEPT ![c] = "queued"] ELSE srv
     ELSE /\ srv' = [srv EXCEPT ![c] = "running"]
          /\ pc' = [pc EXCEPT ![p] = "wait"]
          /\ UNCHANGED resp
  /\ UNCHANGED <<sheetVars, task, holds, deploy, segVars, whisperVars, moreVars>>

\* UrlFetchApp.fetch throws while the direct server is still working
FetchException(p) ==
  /\ pc[p] = "wait"
  /\ resp' = [resp EXCEPT ![p] = "exception"]
  /\ pc' = [pc EXCEPT ![p] = "result"]
  /\ UNCHANGED <<sheetVars, task, holds, serverVars, segVars, whisperVars, moreVars>>

\* callTranscriptionAPI reports success for response code 200 only
ApiSuccess(code) == code = "200"

\* the end of processNextTask and, for a triggered run, lock.releaseLock().
\* On failure a triggered run calls markAsError(task.rowIndex, ...); the
\* manual task has no rowIndex, so markAsError throws before it writes.
HandleResult(p) ==
  /\ pc[p] = "result"
  /\ IF ApiSuccess(resp[p]) \/ p = Manual
     THEN UNCHANGED <<dataStatus, retry>>
     ELSE MarkAsErrorEffect(task[p])
  /\ holds' = [holds EXCEPT ![p] = FALSE]
  /\ pc' = [pc EXCEPT ![p] = "idle"]
  /\ task' = [task EXCEPT ![p] = 0]
  /\ resp' = [resp EXCEPT ![p] = "none"]
  /\ UNCHANGED <<status, transcript, linkOk, serverVars, segVars, whisperVars, moreVars>>

\* the catch block leaving the lock as it is
CatchRelease_KeepsLock(p) == holds

\* the catch block of smartAudioQueueProcessor:
\* LockService.getScriptLock().releaseLock()
CatchRelease(p) == [holds EXCEPT ![p] = FALSE]

\* getWorksheet or getDataRange().getValues() throws after the lock was
\* acquired: the catch block of smartAudioQueueProcessor runs
ScanThrows(p) ==
  /\ p \in Runs
  /\ pc[p] = "scan"
  /\ holds' = CatchRelease(p)
  /\ pc' = [pc EXCEPT ![p] = "idle"]
  /\ UNCHANGED <<sheetVars, task, resp, serverVars, segVars, whisperVars, moreVars>>

\* markAsError, called from the catch block of processNextTask, throws at
\* its first sheet call: nothing is written, the error reaches the catch
\* block of smartAudioQueueProcessor
MarkAsErrorThrows(p) ==
  /\ p \in Runs
  /\ pc[p] = "result"
  /\ ~ApiSuccess(resp[p])
  /\ holds' = CatchRelease(p)
  /\ pc' = [pc EXCEPT ![p] = "idle"]
  /\ task' = [task EXCEPT ![p] = 0]
  /\ resp' = [resp EXCEPT ![p] = "none"]
  /\ UNCHANGED <<sheetVars, serverVars, segVars, whisperVars, moreVars>>

--------------------------------------------------------------------------
\* The transcription server (processTranscriptionJob)

\* queued deployment: the queue worker takes a waiting job; the worker
\* processes one job at a time
ServerStart(c) ==
  /\ deploy = "queued"
  /\ srv[c] = "queued"
  /\ \A d \in Cases : srv[d] # "running"
  /\ srv' = [srv EXCEPT ![c] = "running"]
  /\ UNCHANGED <<sheetVars, execVars, deploy, segVars, whisperVars, moreVars>>

\* the answer of the direct server reaches the executions waiting for it
Answer(c, code) ==
  [p \in Procs |-> IF pc[p] = "wait" /\ task[p] = c THEN code ELSE resp[p]]
Answered(c) ==
  [p \in Procs |-> IF pc[p] = "wait" /\ task[p] = c THEN "result" ELSE pc[p]]

\* the catch block: updateGoogleSheet(caseId, failure text, failure status)
\* inside its own try/catch (writeOk: the write went through), then the
\* error is rethrown: the queue runs the job again while attempts are left
\* (attempts: 3; the count is left open here), the direct server answers 500
JobFailed(c, writeOk) ==
  /\ IF writeOk
     THEN UpdateGoogleSheetEffect(c, FailStatus, "FailureText")
     ELSE UNCHANGED <<status, transcript>>
  /\ IF deploy = "queued"
     THEN /\ \E again \in BOOLEAN :
               srv' = [srv EXCEPT ![c] = IF again THEN "queued" ELSE "idle"]
          /\ UNCHANGED <<resp, pc>>
     ELSE /\ srv' = [srv EXCEPT ![c] = "idle"]
          /\ resp' = Answer(c, "500")
          /\ pc' = Answered(c)

\* download, transcription or quality step threw
ServerFail(c) ==
  /\ srv[c] = "running"
  /\ \E writeOk \in BOOLEAN : JobFailed(c, writeOk)
  /\ UNCHANGED <<dataStatus, retry, linkOk, task, holds, deploy, segVars, whisperVars, moreVars>>

\* the transcription went through: updateGoogleSheet(caseId, transcript,
\* 'Completed'); when that write throws, the catch block runs
ServerSucceed(c) ==
  /\ srv[c] = "running"
  /\ \/ /\ UpdateGoogleSheetEffect(c, Completed, "Text")
        /\ srv' = [srv EXCEPT ![c] = "idle"]
        /\ IF deploy = "queued"
           THEN UNCHANGED <<resp, pc>>
           ELSE resp' = Answer(c, "200") /\ pc' = Answered(c)
     \/ JobFailed(c, FALSE)
  /\ UNCHANGED <<dataStatus, retry, linkOk, task, holds, deploy, segVars, whisperVars, moreVars>>

--------------------------------------------------------------------------
\* restartQueueSystem -> resetInProgressTasks: every 'In Progress' row is
\* set back to 'Pending'
resetInProgressTasks ==
  /\ status' = [c \in Cases |->
                  IF status[c] = InProgress THEN Pending ELSE status[c]]
  /\ UNCHANGED <<dataStatus, transcript, retry, linkOk, execVars, serverVars, segVars, whisperVars, moreVars>>

--------------------------------------------------------------------------
\* The parts of the system a specification does not exercise stay at rest
SegmentsOff ==
  /\ orch = "none"
  /\ nseg = 0
  /\ idx = 0
  /\ spc = "off"
  /\ results = <<>>
  /\ files = {}
  /\ running = {}
  /\ delayed = {}
  /\ failedSeg = {}
  /\ assessed = {}
  /\ qualitySource = "none"
  /\ emptySeg = {}

SplitOff ==
  /\ splitter = "none"
  /\ duration = 0
  /\ silences = <<>>
  /\ sphase = "off"
  /\ chunks = <<>>
  /\ cursor = 0
  /\ currentStart = 0
  /\ extractFailed = FALSE

TextOff ==
  /\ inputText = <<>>
  /\ repetition = <<>>

RunOff ==
  /\ apc = <<>>
  /\ pendingRows = <<>>
  /\ analysisDataForBatchUpdate = <<>>
  /\ notifiedBy = <<>>

CountOff == statCounts = <<>>

RetryOff ==
  /\ rpc = <<>>
  /\ calls = <<>>
  /\ trail = <<>>
  /\ lastError = <<>>
  /\ failWrites = <<>>
  /\ thrownError = <<>>

WebhookOff == posted = <<>>

CleanupOff ==
  /\ clock = 0
  /\ submissionTime = <<>>
  /\ beganAt = <<>>

SyncOff ==
  /\ formData = <<>>
  /\ mainData = <<>>
  /\ syncPc = <<>>
  /\ newEntries = <<>>

ExtOff == CountOff /\ RetryOff /\ WebhookOff /\ CleanupOff /\ SyncOff

RestOff == SplitOff /\ TextOff /\ RunOff /\ ExtOff

WhisperOff ==
  /\ alive = <<>>
  /\ scriptExited = <<>>
  /\ stdoutClosed = <<>>
  /\ stderrClosed = <<>>
  /\ exitCode = <<>>
  /\ timedOut = <<>>
  /\ promise = <<>>

AnalysisOff ==
  /\ analysis = <<>>
  /\ inAnalysis = {}

MonitorOff ==
  /\ monitorStats = <<>>
  /\ evalInput = <<>>
  /\ decision = <<>>

JobOff ==
  /\ jpc = <<>>
  /\ attempts = <<>>
  /\ primaryResult = <<>>
  /\ openaiResult = <<>>
  /\ final = <<>>
  /\ processingMethod = <<>>

QueueOff ==
  /\ linkOk = <<>>
  /\ status = <<>>
  /\ dataStatus = <<>>
  /\ transcript = <<>>
  /\ retry = <<>>
  /\ pc = <<>>
  /\ task = <<>>
  /\ holds = <<>>
  /\ resp = <<>>
  /\ deploy = "none"
  /\ srv = <<>>

\* Every row is one syncFormToDatabase added: Case ID, the audio link of the
\* form response (a Drive link with a file id in it, or some other text),
\* 'Pending', 'Synced from Form', retry 0
InitQueue ==
  /\ linkOk \in [Cases -> BOOLEAN]
  /\ status = [c \in Cases |-> Pending]
  /\ dataStatus = [c \in Cases |-> "Synced"]
  /\ transcript = [c \in Cases |-> "None"]
  /\ retry = [c \in Cases |-> 0]
  /\ pc = [p \in Procs |-> "idle"]
  /\ task = [p \in Procs |-> 0]
  /\ holds = [p \in Procs |-> FALSE]
  /\ resp = [p \in Procs |-> "none"]
  /\ deploy \in {"queued", "direct"}
  /\ srv = [c \in Cases |-> "idle"]
  /\ SegmentsOff
  /\ WhisperOff
  /\ AnalysisOff
  /\ MonitorOff
  /\ JobOff
  /\ RestOff

NextQueue ==
  \/ \E p \in Procs : RunStart(p)
  \/ \E p \in Procs : TryLockAcquire(p)
  \/ \E p \in Procs : TryLockBusy(p)
  \/ \E p \in Procs : ScanQueue(p)
  \/ \E p \in Procs : ManualScan(p)
  \/ \E p \in Procs : MarkInProgress(p)
  \/ \E p \in Procs : CallTranscriptionAPI(p)
  \/ \E p \in Procs : FetchException(p)
  \/ \E p \in Procs : HandleResult(p)
  \/ \E c \in Cases : ServerStart(c)
  \/ \E c \in Cases : ServerFail(c)
  \/ \E c \in Cases : ServerSucceed(c)
  \/ resetInProgressTasks

SpecQueue == InitQueue /\ [][NextQueue]_vars

\* The triggered path alone: the runs of smartAudioQueueProcessor, the
\* server and the queue restart, without the operator's manual test
NextLock ==
  \/ \E p \in Runs : RunStart(p)
  \/ \E p \in Runs : TryLockAcquire(p)
  \/ \E p \in Runs : TryLockBusy(p)
  \/ \E p \in Runs : ScanQueue(p)
  \/ \E p \in Runs : MarkInProgress(p)
  \/ \E p \in Runs : CallTranscriptionAPI(p)
  \/ \E p \in Runs : FetchException(p)
  \/ \E p \in Runs : HandleResult(p)
  \/ \E c \in Cases : ServerStart(c)
  \/ \E c \in Cases : ServerFail(c)
  \/ \E c \in Cases : ServerSucceed(c)
  \/ resetInProgressTasks

SpecLock == InitQueue /\ [][NextLock]_vars

--------------------------------------------------------------------------
\* Properties of the queue

InProgressRows == {c \in Cases : status[c] = InProgress}

\* C1: at every instant at most one row of the sheet has transcription
\* status 'In Progress', whatever the interleaving of triggered runs, the
\* manual testSingleTranscriptionRequest, completions and queue restarts.
C1_AtMostOneInProgress == Cardinality(InProgressRows) <= 1

\* positions of a run between a successful tryLock and releaseLock
Working == {"scan", "mark", "call", "wait", "result"}

\* C4: of the overlapping runs of smartAudioQueueProcessor at most one holds
\* the script lock, and a run is past tryLock (where it reads the queue,
\* changes a status or calls the transcription API) only while it holds the
\* lock; a run that found the lock busy goes from tryLock straight to its
\* return, and that step changes no row and sends no request.
C4_AtMostOneLockHolder ==
  /\ [](Cardinality({p \in Runs : holds[p]}) <= 1)
  /\ [](\A p \in Runs : pc[p] \in Working => holds[p])
  /\ [][\A p \in Runs :
          pc[p] = "lock" /\ pc'[p] # "lock" /\ ~holds'[p]
            => /\ pc'[p] = "skipped"
               /\ UNCHANGED <<sheetVars, serverVars>>]_vars

\* two runs overlap: one holds the lock and is calling the API for a row it
\* marked, the other has found the lock busy and returned
C4_Witness ==
  \E p \in Runs, q \in Runs :
    /\ holds[p] /\ pc[p] = "result" /\ status[task[p]] = InProgress
    /\ pc[q] = "skipped"

\* transitions the state store allows (an empty status cell counts as Pending)
AllowedStatusChange(old, new) ==
  \/ IsPendingStatus(old) /\ new = InProgress
  \/ old = InProgress /\ new \in {Completed, Failed}

\* C9: every change of a row's transcription status is Pending -> In
\* Progress, In Progress -> Completed or In Progress -> Failed.
C9_OnlyAllowedStatusChanges ==
  [][\A c \in Cases :
       status'[c] # status[c] => AllowedStatusChange(status[c], status'[c])]_vars

\* C10: when the dispatch of a task fails (processNextTask's catch block
\* has run), the row's transcription status is Failed and the error text is
\* stored in the row.
C10_DispatchFailureMarksFailed ==
  [][\A p \in Runs :
       pc[p] = "result" /\ pc'[p] = "idle" /\ ~ApiSuccess(resp[p])
         => status'[task[p]] = Failed /\ dataStatus'[task[p]] = "Error"]_vars

--------------------------------------------------------------------------
\* One job's loop over the segments of an asset.  Three functions run such
\* a loop: processAudioChunks (services/transcriptionService.js),
\* transcribeAudio (the sequential rewrite) and transcribeWithOpenAI (the
\* size-driven split for the hosted API).

PAC == "processAudioChunks"
TA == "transcribeAudio"
TWO == "transcribeWithOpenAI"
Orchestrators == {PAC, TA, TWO}

\* what one call of the transcription engine can end in
Outcomes == {"text", "empty", "error", "timeout"}

ChunkFile(i) == <<"chunk", i>>
ProcessedFile(i) == <<"processed", i>>
SegmentFiles(i) == {ChunkFile(i), ProcessedFile(i)}

\* results.push(...) / fullTranscript += ...: the entry goes to the end
PushResult_TextOnly(rs, i, kind) ==
  IF kind = "text" THEN Append(rs, [seg |-> i, kind |-> kind]) ELSE rs
PushResult(rs, i, kind) == Append(rs, [seg |-> i, kind |-> kind])

\* where the loop goes once segment i of n has been cleaned up:
\* transcribeAudio waits 2 s when i is not the last segment
NextPosition_NoDelay(o, i, n) == IF i >= n THEN "done" ELSE "iter"
NextPosition(o, i, n) ==
  IF i >= n THEN "done" ELSE IF o = TA THEN "delay" ELSE "iter"

\* assessTranscriptionQuality.  transcribeWithOptimizedWhisper, which
\* processAudioChunks calls for each segment, assesses the segment's
\* transcript when the engine has returned (perSegment); processAudioChunks
\* returns the average of the segments' scores.  transcribeAudio and
\* transcribeWithOpenAI assess the assembled transcript after the loop.
AssessAtEnd(perSegment) ==
  /\ assessed' = assessed \cup perSegment \cup
                   (IF spc' = "done" /\ orch \in {TA, TWO}
                    THEN {<<"full", 0>>} ELSE {})
  /\ qualitySource' = IF spc' # "done" THEN qualitySource
                       ELSE IF orch = PAC THEN "averageOfSegments"
                       ELSE "fullTranscript"

\* the thrown error leaves the loop and the function: the finally block of
\* transcribeAudio removes tempDir with the preprocessed copies in it; the
\* chunks made by extractChunk are tmp.tmpNameSync files outside tempDir
Abort ==
  /\ spc' = "aborted"
  /\ files' = {f \in files : f[1] # "processed"}
  /\ running' = {}
  /\ UNCHANGED <<idx, results, delayed>>

\* transcribeAudio: preprocessiPhoneAudio(chunkPath, processedPath, ...)
PreprocessSegment ==
  /\ orch = TA
  /\ spc = "iter"
  /\ \/ /\ files' = files \cup {ProcessedFile(idx)}
        /\ spc' = "ready"
        /\ UNCHANGED <<idx, results, running, delayed>>
     \/ Abort
  /\ AssessAtEnd({})
  /\ UNCHANGED <<orch, nseg, emptySeg, failedSeg, queueVars, whisperVars, moreVars>>

\* transcribeWithOpenAI: createAudioChunk(...); when ffmpeg fails the catch
\* block of the iteration pushes the placeholder and the loop goes on
CreateAudioChunk ==
  /\ orch = TWO
  /\ spc = "iter"
  /\ \/ /\ files' = files \cup {ChunkFile(idx)}
        /\ spc' = "ready"
        /\ UNCHANGED <<idx, results>>
     \/ /\ results' = PushResult(results, idx, "placeholder")
        /\ spc' = NextPosition(orch, idx, nseg)
        /\ idx' = IF spc' = "iter" THEN idx + 1 ELSE idx
        /\ UNCHANGED files
  /\ AssessAtEnd({})
  /\ UNCHANGED <<orch, nseg, emptySeg, running, delayed, failedSeg, queueVars, whisperVars, moreVars>>

\* the engine is called for the segment and awaited
StartTranscription ==
  /\ \/ orch = PAC /\ spc = "iter"
     \/ orch \in {TA, TWO} /\ spc = "ready"
  /\ running' = running \cup {idx}
  /\ spc' = "whisper"
  /\ AssessAtEnd({})
  /\ UNCHANGED <<orch, nseg, emptySeg, idx, results, files, delayed, failedSeg,
                 queueVars, whisperVars, moreVars>>

\* the awaited call settles.
\*  processAudioChunks: text is pushed; an empty text takes the else branch,
\*    whose logger.warning(...) either logs or throws, and a placeholder is
\*    pushed either way; an error is caught and a placeholder pushed.
\*  transcribeAudio: the text (empty or not) is appended; an error is not
\*    caught inside the loop.
\*  transcribeWithOpenAI: the trimmed response is pushed; an error is caught,
\*    the placeholder pushed, and the unlink of the try block is skipped.
SettleTranscription(out) ==
  /\ spc = "whisper"
  /\ failedSeg' = IF out \in {"error", "timeout"}
                  THEN failedSeg \cup {idx} ELSE failedSeg
  /\ IF orch = PAC
     THEN /\ results' = PushResult(results, idx,
                          IF out = "text" THEN "text" ELSE "placeholder")
          /\ spc' = "cleanup"
          /\ running' = running \ {idx}
          /\ UNCHANGED <<idx, files, delayed>>
     ELSE IF out \in {"text", "empty"}
     THEN /\ results' = PushResult(results, idx, "text")
          /\ spc' = "cleanup"
          /\ running' = running \ {idx}
          /\ UNCHANGED <<idx, files, delayed>>
     ELSE IF orch = TA
     THEN Abort
     ELSE /\ results' = PushResult(results, idx, "placeholder")
          /\ spc' = NextPosition(orch, idx, nseg)
          /\ idx' = IF spc' = "iter" THEN idx + 1 ELSE idx
          /\ running' = running \ {idx}
          /\ UNCHANGED <<files, delayed>>
  /\ AssessAtEnd(IF orch = PAC /\ out \in {"text", "empty"}
                 THEN {<<"segment", idx>>} ELSE {})
  /\ emptySeg' = IF out = "empty" THEN emptySeg \cup {idx} ELSE emptySeg
  /\ UNCHANGED <<orch, nseg, queueVars, whisperVars, moreVars>>

\* fs.unlinkSync of the segment's files (the finally block of
\* processAudioChunks, the cleanup try block of the other two)
CleanupSegment ==
  /\ spc = "cleanup"
  /\ files' = files \ SegmentFiles(idx)
  /\ spc' = NextPosition(orch, idx, nseg)
  /\ idx' = IF spc' = "iter" THEN idx + 1 ELSE idx
  /\ AssessAtEnd({})
  /\ UNCHANGED <<orch, nseg, emptySeg, results, running, delayed, failedSeg,
                 queueVars, whisperVars, moreVars>>

\* transcribeAudio: await new Promise(resolve => setTimeout(resolve, 2000))
DelayElapsed ==
  /\ spc = "delay"
  /\ delayed' = delayed \cup {idx}
  /\ idx' = idx + 1
  /\ spc' = "iter"
  /\ AssessAtEnd({})
  /\ UNCHANGED <<orch, nseg, emptySeg, results, files, running, failedSeg,
                 queueVars, whisperVars, moreVars>>

\* An asset that is split has more than one segment.  The chunks of
\* processAudioChunks and transcribeAudio are all extracted before the loop;
\* transcribeWithOpenAI extracts each chunk inside its iteration.
InitSegments ==
  /\ orch \in Orchestrators
  /\ nseg \in {n \in 1..MaxSegments : n > 1}
  /\ idx = 1
  /\ spc = "iter"
  /\ results = <<>>
  /\ files = IF orch = TWO THEN {} ELSE {ChunkFile(i) : i \in 1..nseg}
  /\ running = {}
  /\ delayed = {}
  /\ failedSeg = {}
  /\ assessed = {}
  /\ qualitySource = "none"
  /\ emptySeg = {}
  /\ QueueOff
  /\ WhisperOff
  /\ AnalysisOff
  /\ MonitorOff
  /\ JobOff
  /\ RestOff

NextSegments ==
  \/ PreprocessSegment
  \/ CreateAudioChunk
  \/ StartTranscription
  \/ \E out \in Outcomes : SettleTranscription(out)
  \/ CleanupSegment
  \/ DelayElapsed

SpecSegments == InitSegments /\ [][NextSegments]_vars

--------------------------------------------------------------------------
\* Properties of the segment loop

C5_SegmentFailureDoesNotAbort == failedSeg # {} => spc # "aborted"

\* C6: the assembled transcript has one entry per segment, in segment order.
C6_OneEntryPerSegmentInOrder ==
  /\ \A k \in 1..Len(results) : results[k].seg = k
  /\ spc = "done" => Len(results) = nseg

\* a transcript of the longest asset is assembled with a placeholder in it
C6_Witness ==
  /\ spc = "done"
  /\ nseg = MaxSegments
  /\ \E k \in 1..Len(results) : results[k].kind = "placeholder"
  /\ \E k \in 1..Len(results) : results[k].kind = "text"

\* segments whose iteration has ended
EndedSegments ==
  IF spc \in {"done", "aborted"} THEN 1..idx ELSE 1..(idx - 1)

\* C7: no temporary file of a segment exists once the segment's iteration
\* has ended, and none exists after the job has aborted.
C7_TempFilesDeleted ==
  /\ \A i \in EndedSegments : files \cap SegmentFiles(i) = {}
  /\ spc = "aborted" => files = {}

--------------------------------------------------------------------------
\* transcribeWithOpenAIWhisper, called by each request the server is
\* serving (POST /transcribe handlers, queue workers)

Requests == 1..NumRequests

Settled == {"resolved", "rejectedExitCode", "rejectedSpawnError",
            "rejectedTimeout"}

\* tryResolve() that does not wait for stderr to close
tryResolve_NoStderr(exited, outClosed, errClosed, code, current) ==
  IF current = "pending" /\ exited /\ outClosed
  THEN IF code = "0" THEN "resolved" ELSE "rejectedExitCode"
  ELSE current

\* tryResolve(): settles once the process has exited and both streams are
\* closed; exit code 0 resolves, any other value rejects with "Transcription
\* failed with exit code <code>"
tryResolve(exited, outClosed, errClosed, code, current) ==
  IF current = "pending" /\ exited /\ outClosed /\ errClosed
  THEN IF code = "0" THEN "resolved" ELSE "rejectedExitCode"
  ELSE current

\* spawn('python3', [...], {timeout: 29 min}): nothing is looked at before
\* the process is started
SpawnWhisper(r) ==
  /\ promise[r] = "none"
  /\ promise' = [promise EXCEPT ![r] = "pending"]
  /\ alive' = [alive EXCEPT ![r] = TRUE]
  /\ UNCHANGED <<scriptExited, stdoutClosed, stderrClosed, exitCode, timedOut,
                 queueVars, segVars, moreVars>>

\* the script ends by itself: 'exit' handler
ScriptExit(r, code) ==
  /\ alive[r]
  /\ ~timedOut[r]
  /\ alive' = [alive EXCEPT ![r] = FALSE]
  /\ scriptExited' = [scriptExited EXCEPT ![r] = TRUE]
  /\ exitCode' = [exitCode EXCEPT ![r] = code]
  /\ promise' = [promise EXCEPT ![r] =
       tryResolve(TRUE, stdoutClosed[r], stderrClosed[r], code, @)]
  /\ UNCHANGED <<stdoutClosed, stderrClosed, timedOut, queueVars, segVars, moreVars>>

\* 'error' handler: the process could not be started; reject(err)
SpawnError(r) ==
  /\ promise[r] = "pending"
  /\ alive[r]
  /\ ~timedOut[r]
  /\ alive' = [alive EXCEPT ![r] = FALSE]
  /\ promise' = [promise EXCEPT ![r] = "rejectedSpawnError"]
  /\ UNCHANGED <<scriptExited, stdoutClosed, stderrClosed, exitCode, timedOut,
                 queueVars, segVars, moreVars>>

\* the spawn timeout expires: the runtime sends the kill signal (SIGTERM);
\* no 'timeout' event is emitted on the child process
SpawnTimeout(r) ==
  /\ alive[r]
  /\ ~timedOut[r]
  /\ timedOut' = [timedOut EXCEPT ![r] = TRUE]
  /\ UNCHANGED <<alive, scriptExited, stdoutClosed, stderrClosed, exitCode,
                 promise, queueVars, segVars, moreVars>>

\* the signalled process ends: 'exit' handler with code null
KilledExit(r) ==
  /\ alive[r]
  /\ timedOut[r]
  /\ alive' = [alive EXCEPT ![r] = FALSE]
  /\ scriptExited' = [scriptExited EXCEPT ![r] = TRUE]
  /\ exitCode' = [exitCode EXCEPT ![r] = "null"]
  /\ promise' = [promise EXCEPT ![r] =
       tryResolve(TRUE, stdoutClosed[r], stderrClosed[r], "null", @)]
  /\ UNCHANGED <<stdoutClosed, stderrClosed, timedOut, queueVars, segVars, moreVars>>

\* stdout 'close' handler
StdoutClose(r) ==
  /\ promise[r] # "none"
  /\ ~stdoutClosed[r]
  /\ stdoutClosed' = [stdoutClosed EXCEPT ![r] = TRUE]
  /\ promise' = [promise EXCEPT ![r] =
       tryResolve(scriptExited[r], TRUE, stderrClosed[r], exitCode[r], @)]
  /\ UNCHANGED <<alive, scriptExited, stderrClosed, exitCode, timedOut,
                 queueVars, segVars, moreVars>>

\* stderr 'close' handler
StderrClose(r) ==
  /\ promise[r] # "none"
  /\ ~stderrClosed[r]
  /\ stderrClosed' = [stderrClosed EXCEPT ![r] = TRUE]
  /\ promise' = [promise EXCEPT ![r] =
       tryResolve(scriptExited[r], stdoutClosed[r], TRUE, exitCode[r], @)]
  /\ UNCHANGED <<alive, scriptExited, stdoutClosed, exitCode, timedOut,
                 queueVars, segVars, moreVars>>

\* the request has its answer; the handler serves the next request
NextRequest(r) ==
  /\ promise[r] \in Settled
  /\ promise' = [promise EXCEPT ![r] = "none"]
  /\ scriptExited' = [scriptExited EXCEPT ![r] = FALSE]
  /\ stdoutClosed' = [stdoutClosed EXCEPT ![r] = FALSE]
  /\ stderrClosed' = [stderrClosed EXCEPT ![r] = FALSE]
  /\ exitCode' = [exitCode EXCEPT ![r] = "unset"]
  /\ timedOut' = [timedOut EXCEPT ![r] = FALSE]
  /\ UNCHANGED <<alive, queueVars, segVars, moreVars>>

InitWhisper ==
  /\ alive = [r \in Requests |-> FALSE]
  /\ scriptExited = [r \in Requests |-> FALSE]
  /\ stdoutClosed = [r \in Requests |-> FALSE]
  /\ stderrClosed = [r \in Requests |-> FALSE]
  /\ exitCode = [r \in Requests |-> "unset"]
  /\ timedOut = [r \in Requests |-> FALSE]
  /\ promise = [r \in Requests |-> "none"]
  /\ QueueOff
  /\ SegmentsOff
  /\ AnalysisOff
  /\ MonitorOff
  /\ JobOff
  /\ RestOff

NextWhisper ==
  \/ \E r \in Requests : SpawnWhisper(r)
  \/ \E r \in Requests : \E code \in {"0", "1"} : ScriptExit(r, code)
  \/ \E r \in Requests : SpawnError(r)
  \/ \E r \in Requests : SpawnTimeout(r)
  \/ \E r \in Requests : KilledExit(r)
  \/ \E r \in Requests : StdoutClose(r)
  \/ \E r \in Requests : StderrClose(r)
  \/ \E r \in Requests : NextRequest(r)

SpecWhisper == InitWhisper /\ [][NextWhisper]_vars

--------------------------------------------------------------------------
\* Properties of the Whisper subprocesses

\* C2: at every instant at most one Whisper subprocess is alive in the
\* whole service, however many requests are being served.
C2_AtMostOneWhisperAlive == Cardinality({r \in Requests : alive[r]}) <= 1

\* C8: a call whose subprocess ran into the timeout has its subprocess
\* terminated and, once settled, has failed with a timeout error; it has
\* not resolved.
C8_TimeoutFailsWithTimeoutError ==
  \A r \in Requests :
    timedOut[r] /\ promise[r] \in Settled
      => ~alive[r] /\ promise[r] = "rejectedTimeout"

\* C28: the promise of a call is settled at most once, and it is settled
\* by tryResolve (resolved with the output or rejected with the exit code)
\* only in a state where the process has exited and stdout and stderr are
\* closed.
C28_SettledOnceAfterExitAndClose ==
  [][\A r \in Requests :
       /\ promise[r] \in Settled => promise'[r] \in {promise[r], "none"}
       /\ (promise[r] = "pending" /\ promise'[r] \in {"resolved", "rejectedExitCode"})
            => scriptExited'[r] /\ stdoutClosed'[r] /\ stderrClosed'[r]]_vars

\* a call resolved with the output, and one rejected by the 'error' handler
\* whose streams have closed afterwards
C28_Witness ==
  /\ \E r \in Requests : promise[r] = "resolved"
  /\ \E r \in Requests :
       promise[r] = "rejectedSpawnError" /\ stdoutClosed[r] /\ stderrClosed[r]

\* C13: when the server answers the dispatch request with 200 or with 202,
\* the scheduled run ends without marking the row as error and without
\* incrementing its retry count.
C13_AcceptedAnswersAreSuccess ==
  [][\A p \in Runs :
       (pc[p] = "result" /\ resp[p] \in {"200", "202"} /\ pc'[p] = "idle")
         => /\ retry'[task[p]] = retry[task[p]]
            /\ dataStatus'[task[p]] = dataStatus[task[p]]]_vars

\* C14: a run goes on from writing 'In Progress' to the API request only
\* when the row's stored status is 'In Progress', i.e. the write was done.
C14_NoDispatchAfterFailedStatusWrite ==
  [][\A p \in Procs :
       (pc[p] = "mark" /\ pc'[p] = "call") => status'[task[p]] = InProgress]_vars

--------------------------------------------------------------------------
\* The retry count of a row (column S) over the life of the row: dispatch by
\* the transcription queue, the completion webhook, the AI analysis of
\* completed rows, the hourly cleanup and the operator's reprocessing.
\* Each scheduled function is taken as one step except the analysis of a
\* row, which the cleanup can overlap.

\* ERROR_CONFIG.MAX_RETRIES
MAX_RETRIES == 3
\* the model follows a row up to this many counted failures
MaxRetryCount == 4

\* smartAudioQueueProcessor, a whole run that finds no row in progress and
\* dispatches row c; ok: callTranscriptionAPI reported success
smartAudioQueueProcessor(c, ok) ==
  /\ analyzeQueueStatus(status).inProgress = 0
  /\ analyzeQueueStatus(status).pending > 0
  /\ c = findNextPendingTask(status)
  /\ ok \/ retry[c] < MaxRetryCount
  /\ status' = [status EXCEPT ![c] = InProgress]
  /\ dataStatus' = [dataStatus EXCEPT ![c] = IF ok THEN "Stamp" ELSE "Error"]
  /\ retry' = [retry EXCEPT ![c] = IF ok THEN @ ELSE @ + 1]
  /\ UNCHANGED <<transcript, linkOk, execVars, serverVars, segVars,
                 whisperVars, moreVars>>

\* the server ends the job of a dispatched row and writes the sheet itself
ServerWritesResult(c, s) ==
  /\ status[c] = InProgress
  /\ UpdateGoogleSheetEffect(c, s, IF s = Completed THEN "Text" ELSE "FailureText")
  /\ UNCHANGED <<dataStatus, retry, linkOk, execVars, serverVars, segVars,
                 whisperVars, moreVars>>

\* doPost -> updateTranscriptionResult(caseId, transcriptText, status): the
\* completion webhook for a dispatched row
doPost(c, s) ==
  /\ status[c] = InProgress
  /\ transcript' = [transcript EXCEPT ![c] = "Text"]
  /\ status' = [status EXCEPT ![c] = s]
  /\ dataStatus' = [dataStatus EXCEPT ![c] = "ReadyForAnalysis"]
  /\ retry' = [retry EXCEPT ![c] = 0]
  /\ UNCHANGED <<linkOk, execVars, serverVars, segVars, whisperVars, moreVars>>

\* getPendingAnalysisRows: transcription completed, no analysis yet, not
\* being analysed, retry count below MAX_RETRIES
getPendingAnalysisRows ==
  {c \in Cases : /\ status[c] = Completed
                 /\ ~analysis[c]
                 /\ dataStatus[c] # "AnalysisInProgress"
                 /\ retry[c] < MAX_RETRIES}

\* processAllPendingAnalysis takes up a pending row: markAsProcessing
AnalysisStart(c) ==
  /\ c \in getPendingAnalysisRows
  /\ c \notin inAnalysis
  /\ dataStatus' = [dataStatus EXCEPT ![c] = "AnalysisInProgress"]
  /\ inAnalysis' = inAnalysis \cup {c}
  /\ UNCHANGED <<status, transcript, retry, linkOk, execVars, serverVars,
                 analysis, segVars, whisperVars, restVars, monitorVars, jobVars>>

\* ... and ends with the row: the result is written (batchUpdateAnalysisResults)
\* or the catch block calls markAsError
AnalysisEnd(c, ok) ==
  /\ c \in inAnalysis
  /\ inAnalysis' = inAnalysis \ {c}
  /\ IF ok
     THEN /\ analysis' = [analysis EXCEPT ![c] = TRUE]
          /\ dataStatus' = [dataStatus EXCEPT ![c] = "AnalysisCompleted"]
          /\ UNCHANGED retry
     ELSE /\ retry[c] < MaxRetryCount
          /\ MarkAsErrorEffect(c)
          /\ UNCHANGED analysis
  /\ UNCHANGED <<status, transcript, linkOk, execVars, serverVars, segVars,
                 whisperVars, restVars, monitorVars, jobVars>>

\* cleanupStuckProcessing for a row submitted more than an hour ago: a row
\* marked 'AI Analysis In Progress' is marked as error
cleanupStuckProcessing(c) ==
  /\ dataStatus[c] = "AnalysisInProgress"
  /\ retry[c] < MaxRetryCount
  /\ MarkAsErrorEffect(c)
  /\ UNCHANGED <<status, transcript, linkOk, execVars, serverVars, segVars,
                 whisperVars, moreVars>>

\* reprocessAnalysisByCaseIds, run by the operator from the menu for row c:
\* the old analysis is cleared, the retry count set to 0, the row analysed
\* again; when that fails markAsError counts the failure
reprocessAnalysisByCaseIds(c, ok) ==
  /\ c \notin inAnalysis
  /\ analysis' = [analysis EXCEPT ![c] = ok]
  /\ retry' = [retry EXCEPT ![c] = IF ok THEN 0 ELSE 1]
  /\ dataStatus' = [dataStatus EXCEPT ![c] = IF ok THEN "Reprocessed" ELSE "Error"]
  /\ UNCHANGED <<status, transcript, linkOk, execVars, serverVars, inAnalysis,
                 segVars, whisperVars, restVars, monitorVars, jobVars>>

InitRetry ==
  /\ linkOk = [c \in Cases |-> TRUE]
  /\ status = [c \in Cases |-> Pending]
  /\ dataStatus = [c \in Cases |-> "Synced"]
  /\ transcript = [c \in Cases |-> "None"]
  /\ retry = [c \in Cases |-> 0]
  /\ pc = [p \in Procs |-> "idle"]
  /\ task = [p \in Procs |-> 0]
  /\ holds = [p \in Procs |-> FALSE]
  /\ resp = [p \in Procs |-> "none"]
  /\ deploy = "queued"
  /\ srv = [c \in Cases |-> "idle"]
  /\ analysis = [c \in Cases |-> FALSE]
  /\ inAnalysis = {}
  /\ SegmentsOff
  /\ WhisperOff
  /\ MonitorOff
  /\ JobOff
  /\ RestOff

NextRetry ==
  \/ \E c \in Cases : \E ok \in BOOLEAN : smartAudioQueueProcessor(c, ok)
  \/ \E c \in Cases : \E s \in {Completed, Failed} : ServerWritesResult(c, s)
  \/ \E c \in Cases : \E s \in {Completed, Failed} : doPost(c, s)
  \/ resetInProgressTasks
  \/ \E c \in Cases : AnalysisStart(c)
  \/ \E c \in Cases : \E ok \in BOOLEAN : AnalysisEnd(c, ok)
  \/ \E c \in Cases : cleanupStuckProcessing(c)
  \/ \E c \in Cases : \E ok \in BOOLEAN : reprocessAnalysisByCaseIds(c, ok)

SpecRetry == InitRetry /\ [][NextRetry]_vars

\* C11: a row's retry count goes down only in a step of the operator's
\* reprocessing; no other path (completion webhook, queue processing,
\* cleanup) lowers it or sets it back to 0.
C11_RetryResetOnlyByOperator ==
  [][\A c \in Cases :
       retry'[c] < retry[c] => \E ok \in BOOLEAN : reprocessAnalysisByCaseIds(c, ok)]_vars

\* C12: a row whose retry count has reached MAX_RETRIES is not taken up by
\* the transcription queue or by the analysis run, and its retry count is
\* not incremented.
C12_NoProcessingAtMaxRetries ==
  [][\A c \in Cases :
       retry[c] >= MAX_RETRIES =>
         /\ status'[c] = InProgress => status[c] = InProgress
         /\ c \in inAnalysis' => c \in inAnalysis
         /\ retry'[c] <= retry[c]]_vars

--------------------------------------------------------------------------
\* The transcription queue as the time triggers drive it: every scheduled
\* run of smartAudioQueueProcessor and of cleanupStuckProcessing happens
\* again and again, and the server ends every job it has accepted.  The
\* operator's restartQueueSystem is not part of it.

\* what callTranscriptionAPI met: the server queued the job and answered
\* 200; the server queued the job and answered another code (202); the
\* server has no job (no file id in the link, the fetch threw, or an error
\* answer)
DispatchOutcomes == {"sent", "queuedNot200", "notSent"}

\* smartAudioQueueProcessor, a whole run that finds no row in progress and
\* calls processNextTask for row c
processNextTask(c, outcome) ==
  /\ analyzeQueueStatus(status).inProgress = 0
  /\ analyzeQueueStatus(status).pending > 0
  /\ c = findNextPendingTask(status)
  /\ status' = [status EXCEPT ![c] = InProgress]
  /\ IF outcome = "sent"
     THEN /\ dataStatus' = [dataStatus EXCEPT ![c] = "Stamp"]
          /\ UNCHANGED retry
     ELSE MarkAsErrorEffect(c)
  /\ srv' = [srv EXCEPT ![c] = IF outcome = "notSent" THEN @ ELSE "queued"]
  /\ UNCHANGED <<transcript, linkOk, execVars, deploy, segVars, whisperVars,
                 moreVars>>

\* the server ends a job it has queued and writes the row's status
ServerJobEnds(c, s) ==
  /\ srv[c] = "queued"
  /\ srv' = [srv EXCEPT ![c] = "idle"]
  /\ UpdateGoogleSheetEffect(c, s, IF s = Completed THEN "Text" ELSE "FailureText")
  /\ UNCHANGED <<dataStatus, retry, linkOk, execVars, deploy, segVars,
                 whisperVars, moreVars>>

NextDispatch ==
  \/ \E c \in Cases : \E outcome \in DispatchOutcomes : processNextTask(c, outcome)
  \/ \E c \in Cases : \E s \in {Completed, Failed} : ServerJobEnds(c, s)
  \/ \E c \in Cases : AnalysisStart(c)
  \/ \E c \in Cases : \E ok \in BOOLEAN : AnalysisEnd(c, ok)
  \/ \E c \in Cases : cleanupStuckProcessing(c)

DispatchFairness ==
  /\ WF_vars(\E c \in Cases : \E outcome \in DispatchOutcomes : processNextTask(c, outcome))
  /\ WF_vars(\E c \in Cases : \E s \in {Completed, Failed} : ServerJobEnds(c, s))
  /\ \A c \in Cases : WF_vars(cleanupStuckProcessing(c))

SpecDispatch == InitRetry /\ [][NextDispatch]_vars /\ DispatchFairness

\* C27: with the scheduled runs of smartAudioQueueProcessor and of
\* cleanupStuckProcessing happening fairly, every row that is Pending is
\* eventually dispatched (its status leaves Pending); a row whose dispatch
\* failed does not keep the rows after it waiting forever.
C27_EveryPendingRowDispatched ==
  \A c \in Cases : (status[c] = Pending) ~> (status[c] # Pending)

--------------------------------------------------------------------------
\* processAllPendingAnalysis run by several executions at once (the time
\* trigger and the operator's menu, or two trigger firings): the function
\* takes no lock.  An execution reads its list of rows once and then handles
\* one row per step; the results are written back together at the end.

\* the rows of a set in sheet order
RowsInOrder(S) ==
  [i \in 1..Cardinality(S) |-> CHOOSE c \in S : Cardinality({d \in S : d < c}) = i - 1]

\* what happened to a row in the loop: analysed and the Slack message sent,
\* analysed and the message not sent, or an error thrown
RowOutcomes == {"notified", "notNotified", "error"}

\* const pendingRows = getPendingAnalysisRows(); return when it is empty
AnalysisRunStarts(r) ==
  /\ apc[r] = "idle"
  /\ pendingRows' = [pendingRows EXCEPT ![r] = RowsInOrder(getPendingAnalysisRows)]
  /\ getPendingAnalysisRows # {}
  /\ apc' = [apc EXCEPT ![r] = "loop"]
  /\ UNCHANGED <<analysisDataForBatchUpdate, notifiedBy, queueVars, analysisVars,
                 segVars, whisperVars, monitorVars, jobVars, splitVars, textVars, extVars>>

\* one iteration of the loop over pendingRows: markAsProcessing, the
\* analysis, the notification, the push to analysisDataForBatchUpdate; the
\* catch block calls markAsError
AnalyseRow(r, outcome) ==
  /\ apc[r] = "loop"
  /\ pendingRows[r] # <<>>
  /\ LET c == Head(pendingRows[r]) IN
     /\ pendingRows' = [pendingRows EXCEPT ![r] = Tail(@)]
     /\ IF outcome = "error"
        THEN /\ MarkAsErrorEffect(c)
             /\ UNCHANGED <<analysisDataForBatchUpdate, notifiedBy>>
        ELSE /\ dataStatus' = [dataStatus EXCEPT ![c] = "AnalysisInProgress"]
             /\ analysisDataForBatchUpdate' =
                  [analysisDataForBatchUpdate EXCEPT ![r] = @ \cup {c}]
             /\ notifiedBy' = IF outcome = "notified"
                              THEN [notifiedBy EXCEPT ![c] = @ \cup {r}]
                              ELSE notifiedBy
             /\ UNCHANGED retry
  /\ UNCHANGED <<apc, status, transcript, linkOk, execVars, serverVars,
                 analysisVars, segVars, whisperVars, monitorVars, jobVars,
                 splitVars, textVars, extVars>>

\* after the loop: batchUpdateAnalysisResults writes the analysis output
\* and 'AI Analysis Completed' for every row in the list; the run ends
AnalysisRunWrites(r) ==
  /\ apc[r] = "loop"
  /\ pendingRows[r] = <<>>
  /\ analysis' = [c \in Cases |-> analysis[c] \/ c \in analysisDataForBatchUpdate[r]]
  /\ dataStatus' = [c \in Cases |->
                      IF c \in analysisDataForBatchUpdate[r]
                      THEN "AnalysisCompleted" ELSE dataStatus[c]]
  /\ analysisDataForBatchUpdate' = [analysisDataForBatchUpdate EXCEPT ![r] = {}]
  /\ apc' = [apc EXCEPT ![r] = "idle"]
  /\ UNCHANGED <<pendingRows, notifiedBy, status, transcript, retry, linkOk,
                 execVars, serverVars, inAnalysis, segVars, whisperVars,
                 monitorVars, jobVars, splitVars, textVars, extVars>>

\* rows whose transcription is completed and rows still waiting for it
InitAnalysis ==
  /\ linkOk = [c \in Cases |-> TRUE]
  /\ status \in [Cases -> {Completed, Pending}]
  /\ dataStatus = [c \in Cases |->
                     IF status[c] = Completed THEN "ReadyForAnalysis" ELSE "Synced"]
  /\ transcript = [c \in Cases |-> IF status[c] = Completed THEN "Text" ELSE "None"]
  /\ retry = [c \in Cases |-> 0]
  /\ pc = [p \in Procs |-> "idle"]
  /\ task = [p \in Procs |-> 0]
  /\ holds = [p \in Procs |-> FALSE]
  /\ resp = [p \in Procs |-> "none"]
  /\ deploy = "queued"
  /\ srv = [c \in Cases |-> "idle"]
  /\ analysis = [c \in Cases |-> FALSE]
  /\ inAnalysis = {}
  /\ apc = [r \in Runs |-> "idle"]
  /\ pendingRows = [r \in Runs |-> <<>>]
  /\ analysisDataForBatchUpdate = [r \in Runs |-> {}]
  /\ notifiedBy = [c \in Cases |-> {}]
  /\ SegmentsOff
  /\ WhisperOff
  /\ MonitorOff
  /\ JobOff
  /\ SplitOff
  /\ TextOff
  /\ ExtOff

NextAnalysis ==
  \/ \E r \in Runs : AnalysisRunStarts(r)
  \/ \E r \in Runs : \E outcome \in RowOutcomes : AnalyseRow(r, outcome)
  \/ \E r \in Runs : AnalysisRunWrites(r)

SpecAnalysis == InitAnalysis /\ [][NextAnalysis]_vars

\* C30: when executions of processAllPendingAnalysis overlap, no case is
\* analysed and notified by two of them: a row one execution has claimed is
\* not processed by another.
C30_NoCaseNotifiedTwice ==
  \A c \in Cases : Cardinality(notifiedBy[c]) <= 1

--------------------------------------------------------------------------
\* QualityMonitor: the statistics shared by all jobs of the server and the
\* fallback decision.  Ratios and confidences are in percent (0.6 is 60).

\* the sizes of the monitor model: records kept in the history, scores of
\* HighScore among them, failures counted in a row
MaxRecords == 21
MaxHigh == 3
MaxFailures == 3

\* two scores assessTranscriptionQuality gives: 100 - 30 - 20 + 5, and 100
LowScore == 55
HighScore == 100
\* a field the quality object does not have (processAudioChunks returns
\* score and confidence only); every comparison with it is false
undefined == -1

FALLBACK_CONDITIONS ==
  [qualityScore |-> 60, confidenceScore |-> 60, repetitionRatio |-> 40,
   chineseRatio |-> 50, consecutiveFailures |-> 3]
\* qualityHistory.length >= 10
MinSamples == 10
\* qualityHistory.slice(-20)
RecentWindow == 20
\* if (qualityHistory.length > 100) qualityHistory.shift()
HistoryCap == 100

RECURSIVE SumSeq(_)
SumSeq(q) == IF q = <<>> THEN 0 ELSE Head(q) + SumSeq(Tail(q))

\* slice(-n)
SliceLast(q, n) == IF Len(q) <= n THEN q ELSE SubSeq(q, Len(q) - n + 1, Len(q))

\* a <= b in the place of a < b
Lt_Inclusive(a, b) == a # undefined /\ a <= b

\* JavaScript a < b and a > b on a number or undefined
Lt(a, b) == a # undefined /\ a < b
Gt(a, b) == a # undefined /\ a > b

\* the constructor's and resetStats's statistics; averageQuality is kept
\* as the fraction sum / n
resetStats ==
  [consecutiveFailures |-> 0, qualityHistory |-> <<>>,
   averageQuality |-> [sum |-> 0, n |-> 1]]

\* updateAverages with the whole history as the window
updateAverages_WholeHistory(st) ==
  IF st.qualityHistory = <<>> THEN st
  ELSE [st EXCEPT !.averageQuality =
          [sum |-> SumSeq(st.qualityHistory), n |-> Len(st.qualityHistory)]]

updateAverages(st) ==
  IF st.qualityHistory = <<>> THEN st
  ELSE LET recent == SliceLast(st.qualityHistory, RecentWindow) IN
       [st EXCEPT !.averageQuality = [sum |-> SumSeq(recent), n |-> Len(recent)]]

\* recordTranscription with the failure branch leaving the counter alone
recordTranscription_FailureNotCounted(st, success, score) ==
  IF success
  THEN LET pushed == Append(st.qualityHistory, score)
           kept == IF Len(pushed) > HistoryCap THEN Tail(pushed) ELSE pushed
       IN updateAverages([st EXCEPT !.consecutiveFailures = 0,
                                    !.qualityHistory = kept])
  ELSE st

recordTranscription(st, success, score) ==
  IF success
  THEN LET pushed == Append(st.qualityHistory, score)
           kept == IF Len(pushed) > HistoryCap THEN Tail(pushed) ELSE pushed
       IN updateAverages([st EXCEPT !.consecutiveFailures = 0,
                                    !.qualityHistory = kept])
  ELSE [st EXCEPT !.consecutiveFailures = @ + 1]

\* averageQuality < t
AverageBelow(st, t) == st.averageQuality.sum < t * st.averageQuality.n

\* the reasons of shouldFallbackToOpenAI, in the order of its six tests
FallbackReasons(quality, st) ==
  (IF Lt(quality.score, FALLBACK_CONDITIONS.qualityScore)
   THEN <<"qualityScore">> ELSE <<>>)
  \o (IF Lt(quality.confidence, FALLBACK_CONDITIONS.confidenceScore)
      THEN <<"confidenceScore">> ELSE <<>>)
  \o (IF Gt(quality.repetitionRatio, FALLBACK_CONDITIONS.repetitionRatio)
      THEN <<"repetitionRatio">> ELSE <<>>)
  \o (IF Lt(quality.chineseRatio, FALLBACK_CONDITIONS.chineseRatio)
      THEN <<"chineseRatio">> ELSE <<>>)
  \o (IF st.consecutiveFailures >= FALLBACK_CONDITIONS.consecutiveFailures
      THEN <<"consecutiveFailures">> ELSE <<>>)
  \o (IF AverageBelow(st, FALLBACK_CONDITIONS.qualityScore)
         /\ Len(st.qualityHistory) >= MinSamples
      THEN <<"systemQuality">> ELSE <<>>)

shouldFallbackToOpenAI(quality, st) ==
  LET reasons == FallbackReasons(quality, st) IN
  [shouldFallback |-> Len(reasons) > 0, reasons |-> reasons]

\* the records of the monitor: successes, failures and resets in any order
HighCount(q) == Len(SelectSeq(q, LAMBDA x : x = HighScore))

RecordSuccess(score) ==
  /\ Len(monitorStats.qualityHistory) < MaxRecords
  /\ score = HighScore => HighCount(monitorStats.qualityHistory) < MaxHigh
  /\ monitorStats' = recordTranscription(monitorStats, TRUE, score)
  /\ UNCHANGED <<evalInput, decision, queueVars, segVars, whisperVars, restVars,
                 analysisVars, jobVars>>

RecordFailure ==
  /\ monitorStats.consecutiveFailures < MaxFailures
  /\ monitorStats' = recordTranscription(monitorStats, FALSE, undefined)
  /\ UNCHANGED <<evalInput, decision, queueVars, segVars, whisperVars, restVars,
                 analysisVars, jobVars>>

ResetStats ==
  /\ monitorStats' = resetStats
  /\ UNCHANGED <<evalInput, decision, queueVars, segVars, whisperVars, restVars,
                 analysisVars, jobVars>>

InitMonitor ==
  /\ monitorStats = resetStats
  /\ evalInput = <<>>
  /\ decision = <<>>
  /\ QueueOff
  /\ SegmentsOff
  /\ WhisperOff
  /\ AnalysisOff
  /\ JobOff
  /\ RestOff

NextMonitor ==
  \/ \E score \in {LowScore, HighScore} : RecordSuccess(score)
  \/ RecordFailure
  \/ ResetStats

SpecMonitor == InitMonitor /\ [][NextMonitor]_vars

\* the quality objects given to the decision
Qualities ==
  [score : {LowScore, FALLBACK_CONDITIONS.qualityScore, HighScore},
   confidence : {FALLBACK_CONDITIONS.confidenceScore - 1,
                 FALLBACK_CONDITIONS.confidenceScore},
   repetitionRatio : {undefined, FALLBACK_CONDITIONS.repetitionRatio,
                      FALLBACK_CONDITIONS.repetitionRatio + 1},
   chineseRatio : {undefined, FALLBACK_CONDITIONS.chineseRatio - 1,
                   FALLBACK_CONDITIONS.chineseRatio}]

\* the statistics after n successes of one score and k failures
StatsAfter(n, score, k) ==
  [updateAverages([resetStats EXCEPT !.qualityHistory = [i \in 1..n |-> score]])
     EXCEPT !.consecutiveFailures = k]

\* shouldFallbackToOpenAI(quality) on the present statistics
Evaluate(quality) ==
  /\ evalInput' = quality
  /\ decision' = shouldFallbackToOpenAI(quality, monitorStats)
  /\ UNCHANGED <<monitorStats, queueVars, segVars, whisperVars, restVars, analysisVars,
                 jobVars>>

InitDecision ==
  /\ monitorStats \in
       {StatsAfter(n, score, k) :
          n \in {0, MinSamples - 1, MinSamples}, score \in {LowScore, HighScore},
          k \in {0, MaxFailures - 1, MaxFailures}}
  /\ evalInput = <<>>
  /\ decision = <<>>
  /\ QueueOff
  /\ SegmentsOff
  /\ WhisperOff
  /\ AnalysisOff
  /\ JobOff
  /\ RestOff

NextDecision == \E quality \in Qualities : Evaluate(quality)

SpecDecision == InitDecision /\ [][NextDecision]_vars

\* the six trigger conditions as the documentation lists them
TriggerHolds(k, quality, st) ==
  CASE k = "qualityScore" -> quality.score # undefined /\ quality.score < 60
    [] k = "confidenceScore" -> quality.confidence # undefined /\ quality.confidence < 60
    [] k = "repetitionRatio" -> quality.repetitionRatio > 40
    [] k = "chineseRatio" -> quality.chineseRatio # undefined /\ quality.chineseRatio < 50
    [] k = "consecutiveFailures" -> st.consecutiveFailures >= 3
    [] k = "systemQuality" ->
         /\ Len(st.qualityHistory) >= 10
         /\ SumSeq(SliceLast(st.qualityHistory, 20))
              < 60 * Len(SliceLast(st.qualityHistory, 20))

Triggers ==
  {"qualityScore", "confidenceScore", "repetitionRatio", "chineseRatio",
   "consecutiveFailures", "systemQuality"}

C19_SystemQualityTrigger ==
  LET recent == SliceLast(monitorStats.qualityHistory, 20) IN
  (AverageBelow(monitorStats, FALLBACK_CONDITIONS.qualityScore)
     /\ Len(monitorStats.qualityHistory) >= MinSamples)
  <=> (Len(monitorStats.qualityHistory) >= 10 /\ SumSeq(recent) < 60 * Len(recent))

\* more than 20 samples, the trigger holding while the mean of the whole
\* history is not below 60
C19_Witness ==
  /\ Len(monitorStats.qualityHistory) > 20
  /\ AverageBelow(monitorStats, FALLBACK_CONDITIONS.qualityScore)
  /\ SumSeq(monitorStats.qualityHistory) >= 60 * Len(monitorStats.qualityHistory)

--------------------------------------------------------------------------
\* processTranscriptionJob for the jobs of the queue, which the worker
\* processes one at a time, with the monitor shared by all of them.  The
\* jobs are those without forceOpenAI.

NumJobs == 2
Jobs == 1..NumJobs
\* attempts: 3 in the options of audioQueue.add
MaxAttempts == 3

\* what assessTranscriptionQuality gives for a repetitive transcript with
\* few Chinese characters, and for a clean one
PoorQuality ==
  [score |-> LowScore, confidence |-> 50, repetitionRatio |-> 35, chineseRatio |-> 60]
GoodQuality ==
  [score |-> HighScore, confidence |-> 100, repetitionRatio |-> 0, chineseRatio |-> 100]
JobQualities == {PoorQuality, GoodQuality}

NoResult == [transcript |-> "none", quality |-> <<>>]

JobActive == \E j \in Jobs : jpc[j] \in {"primary", "fallback", "record"}

\* the worker takes a waiting job
StartJob(j) ==
  /\ ~JobActive
  /\ jpc[j] = "waiting"
  /\ attempts[j] < MaxAttempts
  /\ attempts' = [attempts EXCEPT ![j] = @ + 1]
  /\ jpc' = [jpc EXCEPT ![j] = "primary"]
  /\ processingMethod' = [processingMethod EXCEPT ![j] = "faster-whisper"]
  /\ UNCHANGED <<primaryResult, openaiResult, final, monitorVars, queueVars,
                 segVars, whisperVars, restVars, analysisVars>>

\* the catch block of processTranscriptionJob: the failure is recorded and
\* the error rethrown; the queue runs the job again while attempts are left
\* the function has ended: its locals are gone
JobEnds(j) ==
  /\ primaryResult' = [primaryResult EXCEPT ![j] = NoResult]
  /\ openaiResult' = [openaiResult EXCEPT ![j] = NoResult]
  /\ final' = [final EXCEPT ![j] = NoResult]
  /\ processingMethod' = [processingMethod EXCEPT ![j] = "none"]
  /\ evalInput' = <<>>
  /\ decision' = <<>>

CatchBlock(j, st) ==
  /\ monitorStats' = recordTranscription(st, FALSE, undefined)
  /\ jpc' = [jpc EXCEPT ![j] = IF attempts[j] < MaxAttempts THEN "waiting" ELSE "failed"]
  /\ JobEnds(j)

\* downloadFromGoogleDrive or transcribeAudio throws
PrimaryThrows(j) ==
  /\ jpc[j] = "primary"
  /\ CatchBlock(j, monitorStats)
  /\ UNCHANGED <<attempts, queueVars, segVars, whisperVars, restVars, analysisVars>>

\* transcribeAudio returns; shouldFallbackToOpenAI(quality) decides whether
\* transcribeWithOpenAI is tried
PrimaryReturns(j, quality) ==
  /\ jpc[j] = "primary"
  /\ primaryResult' = [primaryResult EXCEPT ![j] =
                         [transcript |-> "WhisperText", quality |-> quality]]
  /\ final' = [final EXCEPT ![j] = primaryResult'[j]]
  /\ evalInput' = quality
  /\ decision' = shouldFallbackToOpenAI(quality, monitorStats)
  /\ jpc' = [jpc EXCEPT ![j] = IF decision'.shouldFallback THEN "fallback" ELSE "record"]
  /\ UNCHANGED <<monitorStats, attempts, openaiResult, processingMethod,
                 queueVars, segVars, whisperVars, restVars, analysisVars>>

\* the comparison the other way round
UseOpenAIResult_Lower(openaiScore, score) == openaiScore < score

\* if (openaiResult.quality.score > quality.score)
UseOpenAIResult(openaiScore, score) == openaiScore > score

\* transcribeWithOpenAI returns
FallbackReturns(j, quality) ==
  /\ jpc[j] = "fallback"
  /\ openaiResult' = [openaiResult EXCEPT ![j] =
                        [transcript |-> "OpenAIText", quality |-> quality]]
  /\ IF UseOpenAIResult(quality.score, final[j].quality.score)
     THEN /\ final' = [final EXCEPT ![j] = openaiResult'[j]]
          /\ processingMethod' = [processingMethod EXCEPT ![j] = "openai-api-fallback"]
     ELSE /\ UNCHANGED final
          /\ processingMethod' = [processingMethod EXCEPT ![j] = "faster-whisper-confirmed"]
  /\ jpc' = [jpc EXCEPT ![j] = "record"]
  /\ UNCHANGED <<monitorVars, attempts, primaryResult, queueVars, segVars,
                 whisperVars, restVars, analysisVars>>

\* transcribeWithOpenAI throws: catch (openaiError)
FallbackThrows(j) ==
  /\ jpc[j] = "fallback"
  /\ processingMethod' = [processingMethod EXCEPT ![j] = "faster-whisper-fallback-failed"]
  /\ jpc' = [jpc EXCEPT ![j] = "record"]
  /\ UNCHANGED <<monitorVars, attempts, primaryResult, openaiResult, final,
                 queueVars, segVars, whisperVars, restVars, analysisVars>>

\* steps 3 and 4: recordTranscription({success: true, quality}) and the
\* sheet update; when the update throws (writeOk false) the catch block runs
RecordResult(j, writeOk) ==
  /\ jpc[j] = "record"
  /\ LET recorded == recordTranscription(monitorStats, TRUE, final[j].quality.score) IN
     IF writeOk
     THEN /\ monitorStats' = recorded
          /\ jpc' = [jpc EXCEPT ![j] = "done"]
          /\ JobEnds(j)
     ELSE CatchBlock(j, recorded)
  /\ UNCHANGED <<attempts, queueVars, segVars, whisperVars, restVars, analysisVars>>

InitJob ==
  /\ jpc = [j \in Jobs |-> "waiting"]
  /\ attempts = [j \in Jobs |-> 0]
  /\ primaryResult = [j \in Jobs |-> NoResult]
  /\ openaiResult = [j \in Jobs |-> NoResult]
  /\ final = [j \in Jobs |-> NoResult]
  /\ processingMethod = [j \in Jobs |-> "none"]
  /\ monitorStats = resetStats
  /\ evalInput = <<>>
  /\ decision = <<>>
  /\ QueueOff
  /\ SegmentsOff
  /\ WhisperOff
  /\ AnalysisOff
  /\ RestOff

NextJob ==
  \/ \E j \in Jobs : StartJob(j)
  \/ \E j \in Jobs : PrimaryThrows(j)
  \/ \E j \in Jobs : \E quality \in JobQualities : PrimaryReturns(j, quality)
  \/ \E j \in Jobs : \E quality \in JobQualities : FallbackReturns(j, quality)
  \/ \E j \in Jobs : FallbackThrows(j)
  \/ \E j \in Jobs : \E writeOk \in BOOLEAN : RecordResult(j, writeOk)

SpecJob == InitJob /\ [][NextJob]_vars

\* C16: when the escalation has run, the job goes on to its record step
\* with the result of the higher score of the two; when the fallback
\* provider failed it goes on with the primary result.
C16_EscalationKeepsHigherScore ==
  [][\A j \in Jobs :
       (jpc[j] = "fallback" /\ jpc'[j] # "fallback") =>
         /\ jpc'[j] = "record"
         /\ final'[j] \in {primaryResult'[j], openaiResult'[j]}
         /\ final'[j] # NoResult
         /\ IF openaiResult'[j] = NoResult
            THEN final'[j] = primaryResult'[j]
            ELSE /\ final'[j].quality.score >= primaryResult'[j].quality.score
                 /\ final'[j].quality.score >= openaiResult'[j].quality.score]_vars

\* a job going on with the fallback transcript, its score the higher one
C16_Witness ==
  \E j \in Jobs :
    /\ jpc[j] = "record"
    /\ final[j].transcript = "OpenAIText"
    /\ final[j].quality.score > primaryResult[j].quality.score

\* C17: a job whose primary provider throws goes on to the fallback
\* provider; it does not leave the primary step for the catch block.
C17_PrimaryFailureRunsFallback ==
  [][\A j \in Jobs :
       (jpc[j] = "primary" /\ jpc'[j] # "primary") => jpc'[j] \in {"fallback", "record"}]_vars

--------------------------------------------------------------------------
\* The quality of a job that is split into segments

\* C20: assessTranscriptionQuality runs once, on the assembled transcript
\* after the last segment; it does not run on a segment, and the quality
\* the job returns is not put together from the segments' scores.
C20_QualityAssessedOnceOnWhole ==
  /\ \A a \in assessed : a[1] = "full"
  /\ spc # "done" => assessed = {}
  /\ qualitySource # "averageOfSegments"

--------------------------------------------------------------------------
\* Splitting an asset into chunks: smartSplitAudioForiPhone with
\* splitByPauses and splitByTime (services/transcriptionService.js) and the
\* split of the sequential transcribeAudio.  Times are whole numbers of a
\* unit of which chunkDuration has two; every extractChunk call is a step.

\* IPHONE_OPTIMIZED_CONFIG.chunkDuration, in time units
chunkDuration == 2
\* the longest asset, in time units, and the most silences detected in one
MaxDuration == 7
MaxSilences == 2

SSA == "smartSplitAudioForiPhone"

\* Math.ceil(a / b)
Ceil(a, b) == (a + b - 1) \div b

Span(startTime, endTime) == [start |-> startTime, end |-> endTime]

\* the silences silencedetect can report for an asset of length d: intervals
\* inside the asset, here one time unit long, in ascending order, not
\* overlapping
SilenceIntervals(d) == {Span(a, a + 1) : a \in 0..(d - 1)}
SilenceLists(d) ==
  {q \in UNION {[1..n -> SilenceIntervals(d)] : n \in 0..MaxSilences} :
     \A i \in 1..(Len(q) - 1) : q[i].end <= q[i + 1].start}

\* the end of chunk i without the cut at the end of the asset
ChunkEnd_NoCut(i, total) == (i + 1) * chunkDuration

\* splitByTime: Math.min((i + 1) * chunkDuration, totalDuration)
ChunkEnd(i, total) == Min({(i + 1) * chunkDuration, total})

\* the caller decides whether and how the asset is split.
\*  smartSplitAudioForiPhone: no split up to 1.5 chunkDuration; else
\*    splitByPauses, which gives [] when detectSilences fails (detectOk
\*    false) or finds nothing, and then splitByTime.
\*  transcribeAudio (sequential): splitByTime when the duration exceeds
\*    chunkDuration, else the asset as it is.
SplitBegin(detectOk) ==
  /\ sphase = "start"
  /\ IF splitter = SSA
     THEN IF 2 * duration <= 3 * chunkDuration
          THEN /\ chunks' = <<Span(0, duration)>>
               /\ sphase' = "returned"
               /\ UNCHANGED cursor
          ELSE IF detectOk /\ silences # <<>>
          THEN /\ sphase' = "pauses"
               /\ cursor' = 1
               /\ UNCHANGED chunks
          ELSE /\ sphase' = "time"
               /\ cursor' = 0
               /\ UNCHANGED chunks
     ELSE IF duration > chunkDuration
          THEN /\ sphase' = "time"
               /\ cursor' = 0
               /\ UNCHANGED chunks
          ELSE /\ chunks' = <<Span(0, duration)>>
               /\ sphase' = "returned"
               /\ UNCHANGED cursor
  /\ UNCHANGED <<splitter, duration, silences, currentStart, extractFailed,
                 queueVars, segVars, whisperVars, analysisVars, monitorVars,
                 jobVars, textVars, runVars, extVars>>

\* the catch block of splitByPauses returns [], and smartSplitAudioForiPhone
\* goes on with splitByTime
PausesCaught ==
  /\ extractFailed' = TRUE
  /\ sphase' = "time"
  /\ chunks' = <<>>
  /\ cursor' = 0
  /\ UNCHANGED currentStart

\* splitByPauses, one silence of the loop: a chunk is cut at the silence
\* when it would be chunkDuration long or longer, and the next chunk
\* starts at the end of the silence
PauseStep(extractOk) ==
  /\ sphase = "pauses"
  /\ cursor <= Len(silences)
  /\ LET silence == silences[cursor] IN
     IF silence.start - currentStart >= chunkDuration
     THEN IF extractOk
          THEN /\ chunks' = Append(chunks, Span(currentStart, silence.start))
               /\ currentStart' = silence.end
               /\ cursor' = cursor + 1
               /\ UNCHANGED <<sphase, extractFailed>>
          ELSE PausesCaught
     ELSE /\ extractOk
          /\ cursor' = cursor + 1
          /\ UNCHANGED <<sphase, chunks, currentStart, extractFailed>>
  /\ UNCHANGED <<splitter, duration, silences, queueVars, segVars,
                 whisperVars, analysisVars, monitorVars, jobVars, textVars, runVars, extVars>>

\* splitByPauses after the loop: the rest of the asset is the last chunk
PauseLast(extractOk) ==
  /\ sphase = "pauses"
  /\ cursor > Len(silences)
  /\ IF currentStart < duration
     THEN IF extractOk
          THEN /\ chunks' = Append(chunks, Span(currentStart, duration))
               /\ sphase' = "returned"
               /\ UNCHANGED <<cursor, currentStart, extractFailed>>
          ELSE PausesCaught
     ELSE /\ extractOk
          /\ sphase' = IF chunks = <<>> THEN "time" ELSE "returned"
          /\ cursor' = 0
          /\ UNCHANGED <<chunks, currentStart, extractFailed>>
  /\ UNCHANGED <<splitter, duration, silences, queueVars, segVars,
                 whisperVars, analysisVars, monitorVars, jobVars, textVars, runVars, extVars>>

\* splitByTime, chunk number cursor; a failing extractChunk rejects and the
\* function throws
TimeStep(extractOk) ==
  /\ sphase = "time"
  /\ IF extractOk
     THEN /\ chunks' = Append(chunks, Span(cursor * chunkDuration,
                                           ChunkEnd(cursor, duration)))
          /\ cursor' = cursor + 1
          /\ sphase' = IF cursor + 1 < Ceil(duration, chunkDuration)
                       THEN "time" ELSE "returned"
          /\ UNCHANGED extractFailed
     ELSE /\ extractFailed' = TRUE
          /\ sphase' = "thrown"
          /\ UNCHANGED <<chunks, cursor>>
  /\ UNCHANGED <<splitter, duration, silences, currentStart, queueVars,
                 segVars, whisperVars, analysisVars, monitorVars, jobVars, textVars, runVars, extVars>>

InitSplit ==
  /\ splitter \in {SSA, TA}
  /\ duration \in 1..MaxDuration
  /\ silences \in IF splitter = SSA THEN SilenceLists(duration) ELSE {<<>>}
  /\ sphase = "start"
  /\ chunks = <<>>
  /\ cursor = 0
  /\ currentStart = 0
  /\ extractFailed = FALSE
  /\ TextOff
  /\ RunOff
  /\ ExtOff
  /\ QueueOff
  /\ SegmentsOff
  /\ WhisperOff
  /\ AnalysisOff
  /\ MonitorOff
  /\ JobOff

NextSplit ==
  \/ \E detectOk \in BOOLEAN : SplitBegin(detectOk)
  \/ \E extractOk \in BOOLEAN : PauseStep(extractOk)
  \/ \E extractOk \in BOOLEAN : PauseLast(extractOk)
  \/ \E extractOk \in BOOLEAN : TimeStep(extractOk)

SpecSplit == InitSplit /\ [][NextSplit]_vars

\* C21: an asset not longer than 1.5 times the maximum chunk duration comes
\* back from the split as one chunk, the whole asset.
C21_ShortAssetIsOneSegment ==
  (sphase = "returned" /\ 2 * duration <= 3 * chunkDuration)
    => chunks = <<Span(0, duration)>>

C23_SegmentsContiguous ==
  sphase = "returned" =>
    /\ chunks[1].start = 0
    /\ chunks[Len(chunks)].end = duration
    /\ \A k \in 1..(Len(chunks) - 1) : chunks[k].end = chunks[k + 1].start

\* C24: a split in which an extraction failed does not return a chunk list.
C24_ExtractionFailureFailsSplit ==
  extractFailed => sphase # "returned"

--------------------------------------------------------------------------
\* Empty transcripts

\* C25: a segment for which the engine returned an empty text has no text
\* entry in the job's results: the empty text is handled as a failure of
\* the provider, not as a transcription.
C25_EmptyTextIsProviderError ==
  \A k \in 1..Len(results) : results[k].seg \in emptySeg => results[k].kind # "text"

--------------------------------------------------------------------------
\* checkRepetition(text).  A text is a sequence of characters; " " stands
\* for white space.

MaxChars == 7
Characters == {"a", "b", " "}
Texts == UNION {[1..n -> Characters] : n \in 0..MaxChars}

\* text.split(/\s+/): the pieces between runs of white space; white space
\* at either end of the text gives an empty piece there
RECURSIVE SplitWhitespace(_, _, _)
SplitWhitespace(q, current, inSpace) ==
  IF q = <<>> THEN <<current>>
  ELSE IF Head(q) = " "
  THEN IF inSpace THEN SplitWhitespace(Tail(q), current, TRUE)
       ELSE <<current>> \o SplitWhitespace(Tail(q), <<>>, TRUE)
  ELSE SplitWhitespace(Tail(q), Append(current, Head(q)), FALSE)

\* wordCount[word]
WordCount(words, word) == Cardinality({i \in 1..Len(words) : words[i] = word})

\* Object.values(wordCount).filter(count => count > 3).length over
\* words.length, as the fraction repeated / words
checkRepetition(t) ==
  LET words == SplitWhitespace(t, <<>>, FALSE)
      values == {words[i] : i \in 1..Len(words)}
  IN [repeated |-> Cardinality({w \in values : WordCount(words, w) > 3}),
      words |-> Len(words)]

CheckRepetition ==
  /\ repetition = <<>>
  /\ repetition' = checkRepetition(inputText)
  /\ UNCHANGED <<inputText, splitVars, runVars, extVars, queueVars, segVars,
                 whisperVars, analysisVars, monitorVars, jobVars>>

InitRepetition ==
  /\ inputText \in Texts
  /\ repetition = <<>>
  /\ SplitOff
  /\ RunOff
  /\ ExtOff
  /\ QueueOff
  /\ SegmentsOff
  /\ WhisperOff
  /\ AnalysisOff
  /\ MonitorOff
  /\ JobOff

NextRepetition == CheckRepetition

SpecRepetition == InitRepetition /\ [][NextRepetition]_vars

\* C26: the ratio returned is the number of tokens of the text whose value
\* occurs more than 3 times among the tokens, over the number of tokens.
C26_RepetitionRatioCountsTokens ==
  repetition # <<>> =>
    LET words == SplitWhitespace(inputText, <<>>, FALSE) IN
    /\ repetition.words = Len(words)
    /\ repetition.repeated =
         Cardinality({i \in 1..Len(words) : WordCount(words, words[i]) > 3})

--------------------------------------------------------------------------
\* QualityMonitor: the three counters of this.stats next to the rest of the
\* statistics, over a history long enough to be cut at HistoryCap.

\* successes recorded in the model before a reset
MaxSuccesses == 101

\* the counters of the constructor and of resetStats
resetCounts ==
  [totalTranscriptions |-> 0, successfulTranscriptions |-> 0,
   failedTranscriptions |-> 0]

\* the counting with the total counted for successes only
countTranscription_SuccessOnly(ct, success) ==
  IF success
  THEN [ct EXCEPT !.totalTranscriptions = @ + 1, !.successfulTranscriptions = @ + 1]
  ELSE [ct EXCEPT !.failedTranscriptions = @ + 1]

\* recordTranscription: totalTranscriptions++, then successfulTranscriptions++
\* or failedTranscriptions++
countTranscription(ct, success) ==
  IF success
  THEN [ct EXCEPT !.totalTranscriptions = @ + 1, !.successfulTranscriptions = @ + 1]
  ELSE [ct EXCEPT !.totalTranscriptions = @ + 1, !.failedTranscriptions = @ + 1]

\* recordTranscription(result)
RecordTranscription(success) ==
  /\ IF success
     THEN statCounts.successfulTranscriptions < MaxSuccesses
     ELSE statCounts.failedTranscriptions < MaxFailures
  /\ statCounts' = countTranscription(statCounts, success)
  /\ monitorStats' = recordTranscription(monitorStats, success,
                                         IF success THEN LowScore ELSE undefined)
  /\ UNCHANGED <<evalInput, decision, queueVars, segVars, whisperVars,
                 analysisVars, jobVars, splitVars, textVars, runVars, retryVars,
                 webhookVars, cleanupVars, syncVars>>

\* resetStats()
ResetCounted ==
  /\ statCounts' = resetCounts
  /\ monitorStats' = resetStats
  /\ UNCHANGED <<evalInput, decision, queueVars, segVars, whisperVars,
                 analysisVars, jobVars, splitVars, textVars, runVars, retryVars,
                 webhookVars, cleanupVars, syncVars>>

InitCounters ==
  /\ statCounts = resetCounts
  /\ monitorStats = resetStats
  /\ evalInput = <<>>
  /\ decision = <<>>
  /\ QueueOff
  /\ SegmentsOff
  /\ WhisperOff
  /\ AnalysisOff
  /\ JobOff
  /\ SplitOff
  /\ TextOff
  /\ RunOff
  /\ RetryOff
  /\ WebhookOff
  /\ CleanupOff
  /\ SyncOff

NextCounters ==
  \/ \E success \in BOOLEAN : RecordTranscription(success)
  \/ ResetCounted

SpecCounters == InitCounters /\ [][NextCounters]_vars

\* C37: after any sequence of recordTranscription and resetStats calls the
\* total is the sum of the successes and the failures, the consecutive
\* failures are at most the failures, and the history holds at most 100
\* entries.
C37_CountersConsistent ==
  /\ statCounts.totalTranscriptions =
       statCounts.successfulTranscriptions + statCounts.failedTranscriptions
  /\ monitorStats.consecutiveFailures <= statCounts.failedTranscriptions
  /\ Len(monitorStats.qualityHistory) <= 100

\* more successes recorded than the history keeps, and failures after them
C37_Witness ==
  /\ statCounts.successfulTranscriptions > HistoryCap
  /\ Len(monitorStats.qualityHistory) = HistoryCap
  /\ monitorStats.consecutiveFailures > 0

--------------------------------------------------------------------------
\* C34: a processing of a job (from the worker taking it to the function
\* returning or throwing) records exactly one outcome in the monitor: the
\* step that ends it adds a success to the history or counts a failure,
\* never both, also when the sheet update after the transcription throws.
C34_OneOutcomePerProcessing ==
  [][\A j \in Jobs :
       (jpc[j] \in {"primary", "fallback", "record"}
          /\ jpc'[j] \in {"waiting", "failed", "done"}) =>
         LET success == Len(monitorStats'.qualityHistory)
                          = Len(monitorStats.qualityHistory) + 1
             failure == monitorStats'.consecutiveFailures > 0
         IN (success \/ failure) /\ ~(success /\ failure)]_vars

--------------------------------------------------------------------------
\* processTranscriptionJob with its own retry loop (the OpenAI-only server):
\* the worker runs up to CONCURRENT_JOBS jobs at once, and the queue calls
\* the function again, up to `attempts` times, when a call has thrown.

\* const maxRetries = 2
maxRetries == 2

\* attempt < maxRetries + 2
MoreAttempts_OneMore(attempt) == attempt < maxRetries + 2

\* if (attempt < maxRetries + 1): wait and continue, else break
MoreAttempts(attempt) == attempt < maxRetries + 1

RetryIdle ==
  <<queueVars, segVars, whisperVars, analysisVars, monitorVars, jobVars,
    splitVars, textVars, runVars, countVars, webhookVars, cleanupVars, syncVars>>

\* the queue calls the function: the locals are fresh, attempt 1 begins
CallJob(j) ==
  /\ rpc[j] \in {"waiting", "thrown"}
  /\ calls[j] < MaxAttempts
  /\ calls' = [calls EXCEPT ![j] = @ + 1]
  /\ rpc' = [rpc EXCEPT ![j] = "attempt"]
  /\ trail' = [trail EXCEPT ![j] = <<"running">>]
  /\ lastError' = [lastError EXCEPT ![j] = 0]
  /\ failWrites' = [failWrites EXCEPT ![j] = 0]
  /\ thrownError' = [thrownError EXCEPT ![j] = 0]
  /\ UNCHANGED RetryIdle

\* the try block runs to its end (download, preprocessing, transcription,
\* record, sheet update): return {success: true, ...}
AttemptReturns(j) ==
  /\ rpc[j] = "attempt"
  /\ trail' = [trail EXCEPT ![j][Len(trail[j])] = "ok"]
  /\ rpc' = [rpc EXCEPT ![j] = "returned"]
  /\ UNCHANGED <<calls, lastError, failWrites, thrownError, RetryIdle>>

\* something in the try block throws: catch (error)
AttemptThrows(j) ==
  /\ rpc[j] = "attempt"
  /\ trail' = [trail EXCEPT ![j][Len(trail[j])] = "failed"]
  /\ lastError' = [lastError EXCEPT ![j] = Len(trail[j])]
  /\ rpc' = [rpc EXCEPT ![j] = IF MoreAttempts(Len(trail[j])) THEN "pause" ELSE "final"]
  /\ UNCHANGED <<calls, failWrites, thrownError, RetryIdle>>

\* the 5 seconds have passed: continue, the next attempt begins
NextAttempt(j) ==
  /\ rpc[j] = "pause"
  /\ trail' = [trail EXCEPT ![j] = Append(@, "running")]
  /\ rpc' = [rpc EXCEPT ![j] = "attempt"]
  /\ UNCHANGED <<calls, lastError, failWrites, thrownError, RetryIdle>>

\* after the loop: the failure status is written (the write may throw, which
\* is logged only) and lastError thrown
FinalFailure(j, writeOk) ==
  /\ rpc[j] = "final"
  /\ failWrites' = [failWrites EXCEPT ![j] = @ + 1]
  /\ thrownError' = [thrownError EXCEPT ![j] = lastError[j]]
  /\ rpc' = [rpc EXCEPT ![j] = "thrown"]
  /\ UNCHANGED <<calls, trail, lastError, RetryIdle>>

InitRetrying ==
  /\ rpc = [j \in Jobs |-> "waiting"]
  /\ calls = [j \in Jobs |-> 0]
  /\ trail = [j \in Jobs |-> <<>>]
  /\ lastError = [j \in Jobs |-> 0]
  /\ failWrites = [j \in Jobs |-> 0]
  /\ thrownError = [j \in Jobs |-> 0]
  /\ CountOff
  /\ WebhookOff
  /\ CleanupOff
  /\ SyncOff
  /\ QueueOff
  /\ SegmentsOff
  /\ WhisperOff
  /\ AnalysisOff
  /\ MonitorOff
  /\ JobOff
  /\ SplitOff
  /\ TextOff
  /\ RunOff

NextRetrying ==
  \/ \E j \in Jobs : CallJob(j)
  \/ \E j \in Jobs : AttemptReturns(j)
  \/ \E j \in Jobs : AttemptThrows(j)
  \/ \E j \in Jobs : NextAttempt(j)
  \/ \E j \in Jobs : \E writeOk \in BOOLEAN : FinalFailure(j, writeOk)

SpecRetrying == InitRetrying /\ [][NextRetrying]_vars

--------------------------------------------------------------------------
\* The runs of smartAudioQueueProcessor with the exceptions that reach its
\* catch block; the rows stay as the runs leave them (no server answer
\* written, no restart of the queue by the operator).
NextRelease ==
  \/ \E p \in Runs : RunStart(p)
  \/ \E p \in Runs : TryLockAcquire(p)
  \/ \E p \in Runs : TryLockBusy(p)
  \/ \E p \in Runs : ScanQueue(p)
  \/ \E p \in Runs : ScanThrows(p)
  \/ \E p \in Runs : MarkInProgress(p)
  \/ \E p \in Runs : CallTranscriptionAPI(p)
  \/ \E p \in Runs : FetchException(p)
  \/ \E p \in Runs : HandleResult(p)
  \/ \E p \in Runs : MarkAsErrorThrows(p)

SpecRelease == InitQueue /\ [][NextRelease]_vars

\* C35: a run of smartAudioQueueProcessor that is not running (it has not
\* started, or it has ended by an early return, after the dispatch or
\* through its catch block) does not hold the script lock.
C35_LockReleasedWhenRunEnds ==
  \A p \in Runs : pc[p] \in {"idle", "skipped"} => ~holds[p]

\* every run has ended and a row is left 'In Progress' without an error
\* mark although the queued server refused the job: the run ended through
\* the catch block, markAsError having thrown
C35_Witness ==
  /\ deploy = "queued"
  /\ \A p \in Runs : pc[p] = "idle" /\ ~holds[p]
  /\ \E c \in Cases :
       /\ status[c] = InProgress
       /\ dataStatus[c] = "Stamp"
       /\ retry[c] = 0

--------------------------------------------------------------------------
\* doPost: the completion webhook, called with any payload at any time.
\* Case ID 0 stands for a payload without caseId, NumCases + 1 for a Case ID
\* no row has; the empty text for a payload without transcriptText.

\* column A of the rows: the Case ID of row c is c
CaseIdOf(c) == c

Payloads ==
  [caseId : 0..(NumCases + 1),
   transcriptText : {Empty, "Text", "FailureText"},
   status : {Completed, Failed, "undefined"}]

\* the test with the transcript text left out
HasRequiredFields_CaseIdOnly(payload) == payload.caseId # 0

\* if (!requestData.caseId || !requestData.transcriptText) return
HasRequiredFields(payload) ==
  payload.caseId # 0 /\ payload.transcriptText # Empty

\* updateTranscriptionResult: the first row whose Case ID is caseId (0: none)
FindCaseRow(caseId) ==
  LET rows == {c \in Cases : CaseIdOf(c) = caseId}
  IN IF rows = {} THEN 0 ELSE Min(rows)

WebhookIdle ==
  <<linkOk, execVars, serverVars, segVars, whisperVars, analysisVars,
    monitorVars, jobVars, splitVars, textVars, runVars, countVars, retryVars,
    cleanupVars, syncVars>>

\* doPost(e) -> updateTranscriptionResult(caseId, transcriptText, status);
\* status = 'Completed' when the payload has none
DoPost(payload) ==
  /\ posted' = payload
  /\ LET row == FindCaseRow(payload.caseId) IN
     IF HasRequiredFields(payload) /\ row # 0
     THEN /\ transcript' = [transcript EXCEPT ![row] = payload.transcriptText]
          /\ status' = [status EXCEPT ![row] =
                          IF payload.status = "undefined" THEN Completed
                          ELSE payload.status]
          /\ dataStatus' = [dataStatus EXCEPT ![row] = "ReadyForAnalysis"]
          /\ retry' = [retry EXCEPT ![row] = 0]
     ELSE UNCHANGED <<transcript, status, dataStatus, retry>>
  /\ UNCHANGED WebhookIdle

\* rows waiting or dispatched, with or without a counted failure
InitWebhook ==
  /\ linkOk = [c \in Cases |-> TRUE]
  /\ status \in [Cases -> {Pending, InProgress}]
  /\ retry \in [Cases -> {0, 1}]
  /\ dataStatus = [c \in Cases |->
                     IF retry[c] > 0 THEN "Error"
                     ELSE IF status[c] = Pending THEN "Synced" ELSE "Stamp"]
  /\ transcript = [c \in Cases |-> "None"]
  /\ pc = [p \in Procs |-> "idle"]
  /\ task = [p \in Procs |-> 0]
  /\ holds = [p \in Procs |-> FALSE]
  /\ resp = [p \in Procs |-> "none"]
  /\ deploy = "queued"
  /\ srv = [c \in Cases |-> "idle"]
  /\ posted = [caseId |-> 0, transcriptText |-> Empty, status |-> "undefined"]
  /\ SegmentsOff
  /\ WhisperOff
  /\ AnalysisOff
  /\ MonitorOff
  /\ JobOff
  /\ SplitOff
  /\ TextOff
  /\ RunOff
  /\ CountOff
  /\ RetryOff
  /\ CleanupOff
  /\ SyncOff

NextWebhook == \E payload \in Payloads : DoPost(payload)

SpecWebhook == InitWebhook /\ [][NextWebhook]_vars

\* C36: a webhook request with caseId and transcriptText of an existing
\* case writes the text and the status (Completed when none is given) to
\* that case's row, and every other row keeps all its cells; a request that
\* lacks a field or names no existing case changes no row.
C36_WebhookWritesOneRow ==
  [][\A c \in Cases :
       IF posted' # posted
            /\ posted'.caseId = CaseIdOf(c)
            /\ posted'.transcriptText # Empty
       THEN /\ transcript'[c] = posted'.transcriptText
            /\ status'[c] = IF posted'.status = "undefined" THEN Completed
                            ELSE posted'.status
       ELSE posted' # posted =>
              /\ transcript'[c] = transcript[c]
              /\ status'[c] = status[c]
              /\ dataStatus'[c] = dataStatus[c]
              /\ retry'[c] = retry[c]]_vars

\* the last request was for row 2, which holds its text and status, while
\* row 1 is as it was at the start
C36_Witness ==
  /\ posted.caseId = 2
  /\ posted.status = "undefined"
  /\ transcript[2] = "Text"
  /\ status[2] = Completed
  /\ transcript[1] = "None"
  /\ status[1] = InProgress

--------------------------------------------------------------------------
\* cleanupStuckProcessing against the clock.  Time is counted in half
\* hours; a row's Submission_Timestamp is the time of its form response.

\* the model's clock stops here
MaxClock == 4
\* 60 * 60 * 1000 ms, in half hours
SixtyMinutes == 2

CleanupIdle ==
  <<transcript, linkOk, execVars, serverVars, segVars, whisperVars,
    monitorVars, jobVars, splitVars, textVars, runVars, countVars, retryVars,
    webhookVars, syncVars>>

\* half an hour passes
Tick ==
  /\ clock < MaxClock
  /\ clock' = clock + 1
  /\ UNCHANGED <<status, dataStatus, retry, submissionTime, beganAt,
                 analysisVars, CleanupIdle>>

\* processNextTask: markTranscriptionStatus(caseId, 'In Progress') writes
\* 'In Progress' to column F and 'In Progress at <time>' to column O
DispatchRow(c) ==
  /\ status[c] = Pending
  /\ MarkTranscriptionStatusEffect(c, InProgress)
  /\ beganAt' = [beganAt EXCEPT ![c] = clock]
  /\ UNCHANGED <<retry, clock, submissionTime, analysisVars, CleanupIdle>>

\* the transcription result arrives for a dispatched row
TranscriptionDone(c) ==
  /\ status[c] = InProgress
  /\ status' = [status EXCEPT ![c] = Completed]
  /\ dataStatus' = [dataStatus EXCEPT ![c] = "ReadyForAnalysis"]
  /\ UNCHANGED <<retry, clock, submissionTime, beganAt, analysisVars, CleanupIdle>>

\* processAllPendingAnalysis takes up a row: markAsProcessing writes
\* 'AI Analysis In Progress' to column O
markAsProcessing(c) ==
  /\ c \in getPendingAnalysisRows
  /\ c \notin inAnalysis
  /\ dataStatus' = [dataStatus EXCEPT ![c] = "AnalysisInProgress"]
  /\ inAnalysis' = inAnalysis \cup {c}
  /\ beganAt' = [beganAt EXCEPT ![c] = clock]
  /\ UNCHANGED <<status, retry, clock, submissionTime, analysis, CleanupIdle>>

\* the analysis of the row ends: the result is written or markAsError called
AnalysisDone(c, ok) ==
  /\ c \in inAnalysis
  /\ inAnalysis' = inAnalysis \ {c}
  /\ IF ok
     THEN /\ analysis' = [analysis EXCEPT ![c] = TRUE]
          /\ dataStatus' = [dataStatus EXCEPT ![c] = "AnalysisCompleted"]
          /\ UNCHANGED retry
     ELSE /\ MarkAsErrorEffect(c)
          /\ UNCHANGED analysis
  /\ UNCHANGED <<status, clock, submissionTime, beganAt, CleanupIdle>>

\* the rows one run of cleanupStuckProcessing marks: Data_Status is
\* 'AI Analysis In Progress' or exactly 'In Progress', and the
\* Submission_Timestamp is more than 60 minutes back
StuckRows ==
  {c \in Cases : /\ dataStatus[c] \in {"AnalysisInProgress", InProgress}
                 /\ submissionTime[c] < clock - SixtyMinutes}

\* cleanupStuckProcessing, a whole run: markAsError for every such row
CleanupRun ==
  /\ StuckRows # {}
  /\ dataStatus' = [c \in Cases |-> IF c \in StuckRows THEN "Error" ELSE dataStatus[c]]
  /\ retry' = [c \in Cases |-> IF c \in StuckRows THEN retry[c] + 1 ELSE retry[c]]
  /\ UNCHANGED <<status, clock, submissionTime, beganAt, analysisVars, CleanupIdle>>

\* the rows were submitted at the start or half an hour later
InitCleanup ==
  /\ clock = 0
  /\ submissionTime \in [Cases -> {0, 1}]
  /\ beganAt = [c \in Cases |-> -1]
  /\ linkOk = [c \in Cases |-> TRUE]
  /\ status = [c \in Cases |-> Pending]
  /\ dataStatus = [c \in Cases |-> "Synced"]
  /\ transcript = [c \in Cases |-> "None"]
  /\ retry = [c \in Cases |-> 0]
  /\ pc = [p \in Procs |-> "idle"]
  /\ task = [p \in Procs |-> 0]
  /\ holds = [p \in Procs |-> FALSE]
  /\ resp = [p \in Procs |-> "none"]
  /\ deploy = "queued"
  /\ srv = [c \in Cases |-> "idle"]
  /\ analysis = [c \in Cases |-> FALSE]
  /\ inAnalysis = {}
  /\ SegmentsOff
  /\ WhisperOff
  /\ MonitorOff
  /\ JobOff
  /\ SplitOff
  /\ TextOff
  /\ RunOff
  /\ CountOff
  /\ RetryOff
  /\ WebhookOff
  /\ SyncOff

NextCleanup ==
  \/ Tick
  \/ \E c \in Cases : DispatchRow(c)
  \/ \E c \in Cases : TranscriptionDone(c)
  \/ \E c \in Cases : markAsProcessing(c)
  \/ \E c \in Cases : \E ok \in BOOLEAN : AnalysisDone(c, ok)
  \/ CleanupRun

SpecCleanup == InitCleanup /\ [][NextCleanup]_vars

\* C32: cleanupStuckProcessing marks a row as error only when the row has
\* been in progress for more than 60 minutes: a row it marks (the analysis
\* of the row still running) began its processing more than 60 minutes
\* before.
C32_MarkedOnlyAfterSixtyMinutes ==
  [][\A c \in Cases :
       (/\ dataStatus[c] = "AnalysisInProgress"
        /\ dataStatus'[c] = "Error"
        /\ c \in inAnalysis') => clock - beganAt[c] > SixtyMinutes]_vars

--------------------------------------------------------------------------
\* syncFormToDatabase: form responses arrive, executions of the function
\* (started by the 10-minute trigger; nothing keeps two from overlapping)
\* copy the new ones to the master sheet.  All responses have an audio link.

\* responses the form receives in the model
MaxResponses == 2

SyncIdle ==
  <<queueVars, segVars, whisperVars, analysisVars, monitorVars, jobVars,
    splitVars, textVars, runVars, countVars, retryVars, webhookVars,
    cleanupVars>>

\* a salesperson submits the form with Case ID id
FormSubmit(id) ==
  /\ Len(formData) < MaxResponses
  /\ formData' = Append(formData, [caseId |-> id, syncStatus |-> Empty])
  /\ UNCHANGED <<mainData, syncPc, newEntries, SyncIdle>>

\* steps 1 and 2: both sheets are read; a response is new when its Case ID
\* is not among the master sheet's rows as read and it is not marked Synced
NewEntryIndices ==
  LET mainDbCases == {mainData[k].caseId : k \in 1..Len(mainData)} IN
  {i \in 1..Len(formData) :
     /\ formData[i].caseId \notin mainDbCases
     /\ formData[i].syncStatus # "Synced"}

SyncRead(r) ==
  /\ syncPc[r] = "idle"
  /\ NewEntryIndices # {}
  /\ newEntries' = [newEntries EXCEPT ![r] = RowsInOrder(NewEntryIndices)]
  /\ syncPc' = [syncPc EXCEPT ![r] = "append"]
  /\ UNCHANGED <<formData, mainData, SyncIdle>>

\* step 3: the new rows are appended after the last row, each 'Pending'
\* with retry count 0
SyncAppend(r) ==
  /\ syncPc[r] = "append"
  /\ mainData' = mainData \o
       [k \in 1..Len(newEntries[r]) |->
          [caseId |-> formData[newEntries[r][k]].caseId,
           status |-> Pending, retry |-> 0]]
  /\ syncPc' = [syncPc EXCEPT ![r] = "mark"]
  /\ UNCHANGED <<formData, newEntries, SyncIdle>>

\* step 4: the responses copied are marked 'Synced'; the run ends
SyncMark(r) ==
  /\ syncPc[r] = "mark"
  /\ formData' = [i \in 1..Len(formData) |->
                    IF \E k \in 1..Len(newEntries[r]) : newEntries[r][k] = i
                    THEN [formData[i] EXCEPT !.syncStatus = "Synced"]
                    ELSE formData[i]]
  /\ newEntries' = [newEntries EXCEPT ![r] = <<>>]
  /\ syncPc' = [syncPc EXCEPT ![r] = "idle"]
  /\ UNCHANGED <<mainData, SyncIdle>>

InitSync ==
  /\ formData = <<>>
  /\ mainData = <<>>
  /\ syncPc = [r \in Runs |-> "idle"]
  /\ newEntries = [r \in Runs |-> <<>>]
  /\ QueueOff
  /\ SegmentsOff
  /\ WhisperOff
  /\ AnalysisOff
  /\ MonitorOff
  /\ JobOff
  /\ SplitOff
  /\ TextOff
  /\ RunOff
  /\ CountOff
  /\ RetryOff
  /\ WebhookOff
  /\ CleanupOff

NextSync ==
  \/ \E id \in Cases : FormSubmit(id)
  \/ \E r \in Runs : SyncRead(r)
  \/ \E r \in Runs : SyncAppend(r)
  \/ \E r \in Runs : SyncMark(r)

SpecSync == InitSync /\ [][NextSync]_vars

\* C31: whatever runs of syncFormToDatabase have happened, overlapping or
\* not, and also when two responses carry the same Case ID, the master
\* sheet has at most one row for a Case ID, and the rows added are Pending
\* with retry count 0.
C31_OneRowPerCaseId ==
  /\ \A k1, k2 \in 1..Len(mainData) :
       mainData[k1].caseId = mainData[k2].caseId => k1 = k2
  /\ \A k \in 1..Len(mainData) :
       mainData[k].status = Pending /\ mainData[k].retry = 0

====
